---- MODULE Spec2Model ----
(***************************************************************************)
(* Model of the directed weighted Graph (src/Graph.py) and of the          *)
(* FlowNetwork built on four such graphs (src/FlowNetwork.py): addEdge,    *)
(* Edmonds-Karp max flow and cycle-canceling min-cost max flow.            *)
(*                                                                         *)
(* A Python dict is insertion ordered, and bfs and bellmanFord_SSSP walk   *)
(* the dicts in that order, so every adjacency mapping is kept with its    *)
(* key order: keys is the order of the outer dict, nbrs[u] the order of    *)
(* the inner dict of u, wt[u][v] the stored weight (0 where no entry).     *)
(***************************************************************************)
EXTENDS Integers, Sequences, FiniteSets, TLC

\* ------------------------------------------------------------- bounds
\* Most addEdge calls made while a network is built.
MaxEdges == 4
\* Most addEdge calls made while a network without costs is built.
MaxPlainEdges == 5
\* Most pushAugmentingFlow calls followed in one query.
MaxSteps == 6
\* The most edges of a network that is put to further use after it is built.
MaxSmallEdges == 3
\* The most edges of a network before its flow is computed and it gets one more.
MaxFewEdges == 2
\* Most Graph.addEdge calls made on a graph Bellman-Ford is run on.
MaxGraphEdges == 4

\* The vertices, the capacities and the costs addEdge is called with;
\* NegativeCaps are the capacities it has to reject.
Vertices == {"s", "a", "b", "t"}
Caps == {1, 2}
\* The capacities of the networks without costs.
PlainCaps == {0, 1, 2}
Costs == {-1, 1}
NegativeCaps == {-2, -1}
\* The weights Graph.addEdge is called with.
GraphWeights == {-1, 1}
source == "s"
sink == "t"

\* float('inf') of the source: a value no sum of weights of the model reaches.
Inf == 1000000
\* None of the source.
None == "None"

Range(seq) == {seq[i] : i \in DOMAIN seq}

\* ------------------------------------------------------------- Graph
\* Graph() whose vertices will be values of V
EmptyGraphOn(V) ==
    [vertices |-> {},
     keys |-> << >>,
     nbrs |-> [u \in V |-> << >>],
     wt |-> [u \in V |-> [v \in V |-> 0]]]

EmptyGraph == EmptyGraphOn(Vertices)

\* u in self.edges
HasKey(G, u) == u \in Range(G.keys)

\* Graph.__contains__: item in self.vertices and item in self.edges
Contains(G, u) == u \in G.vertices /\ HasKey(G, u)

\* v in G[u], where Graph.__getitem__ is self.edges.get(u, {})
HasEdge(G, u, v) == v \in Range(G.nbrs[u])

\* G[u][v] of an entry that is present
Weight(G, u, v) == G.wt[u][v]

\* G[u].get(v, 0)
GetOr0(G, u, v) == IF HasEdge(G, u, v) THEN G.wt[u][v] ELSE 0

\* Graph.getChildren(u): [err, children].  The assert of line 58 rejects a
\* u outside self.vertices; else children are the keys of edges[u] in dict
\* order, () without a key.
getChildren(G, u) ==
    IF u \notin G.vertices THEN [err |-> "AssertionError", children |-> << >>]
    ELSE [err |-> "ok", children |-> G.nbrs[u]]

\* G[u][v] = w on the dict of an existing key u: a new inner key goes last,
\* an existing one keeps its place.  Without the key u the write lands in
\* the temporary {} that __getitem__ returned and is lost.
SetEntry(G, u, v, w) ==
    IF ~HasKey(G, u) THEN G
    ELSE [G EXCEPT !.nbrs[u] = IF HasEdge(G, u, v) THEN @ ELSE Append(@, v),
                   !.wt[u][v] = w]

\* del G[u][v] of an entry that is present
DelEntry(G, u, v) ==
    [G EXCEPT !.nbrs[u] = SelectSeq(@, LAMBDA x : x # v),
              !.wt[u][v] = 0]

\* Graph.__setitem__ with a one-entry dict: G[v] = {u: w}
SetRow(G, v, u, w) ==
    [G EXCEPT !.keys = IF HasKey(G, v) THEN @ ELSE Append(@, v),
              !.nbrs[v] = <<u>>,
              !.wt[v] = [x \in DOMAIN G.wt |-> IF x = u THEN w ELSE 0]]

\* Graph.addEdge without the test of line 93: the dict of u is replaced by
\* {v: w} also when u has edges already.
GraphAddEdgeReplacesRow(G, u, v, w) ==
    [vertices |-> G.vertices \cup {u, v},
     keys |-> IF HasKey(G, u) THEN G.keys ELSE Append(G.keys, u),
     nbrs |-> [G.nbrs EXCEPT ![u] = <<v>>],
     wt |-> [G.wt EXCEPT ![u] = [x \in DOMAIN G.wt |-> IF x = v THEN w ELSE 0]]]

\* Graph.addVertex(x): x joins self.vertices, the edges stay.
addVertex(G, x) == [G EXCEPT !.vertices = @ \cup {x}]

\* Graph.addEdge(u, v, w)
GraphAddEdge(G, u, v, w) ==
    [vertices |-> G.vertices \cup {u, v},
     keys |-> IF HasKey(G, u) THEN G.keys ELSE Append(G.keys, u),
     nbrs |-> [G.nbrs EXCEPT ![u] = IF HasKey(G, u)
                                      THEN (IF HasEdge(G, u, v) THEN @ ELSE Append(@, v))
                                      ELSE <<v>>],
     wt |-> [G.wt EXCEPT ![u] = IF HasKey(G, u)
                                  THEN [@ EXCEPT ![v] = w]
                                  ELSE [x \in DOMAIN G.wt |-> IF x = v THEN w ELSE 0]]]

\* The edges (u, v) of a graph, as a set.
EdgeSet(G) == UNION {{<<u, G.nbrs[u][i]>> : i \in DOMAIN G.nbrs[u]} : u \in DOMAIN G.nbrs}

\* The edges of a graph in iteration order: for u in edges: for v in edges[u].
RECURSIVE RowEdges(_, _, _)
RowEdges(u, row, i) ==
    IF i > Len(row) THEN << >> ELSE << <<u, row[i]>> >> \o RowEdges(u, row, i + 1)

RECURSIVE EdgeList(_, _)
EdgeList(G, i) ==
    IF i > Len(G.keys) THEN << >>
    ELSE RowEdges(G.keys[i], G.nbrs[G.keys[i]], 1) \o EdgeList(G, i + 1)

\* ------------------------------------------------------------- Graph.bfs
\* The for loop of bfs where a child that still waits in the queue takes
\* the node at hand as its parent.
RECURSIVE BfsChildrenLatestParent(_, _, _, _)
BfsChildrenLatestParent(st, node, ch, i) ==
    IF i > Len(ch) THEN st
    ELSE LET n == ch[i] IN
         IF n \in st.visited
         THEN BfsChildrenLatestParent(
                  IF n \in Range(st.queue) THEN [st EXCEPT !.parents[n] = node] ELSE st,
                  node, ch, i + 1)
         ELSE BfsChildrenLatestParent([queue |-> Append(st.queue, n),
                                       visited |-> st.visited \cup {n},
                                       parents |-> [st.parents EXCEPT ![n] = node]],
                                      node, ch, i + 1)

\* The for loop over the children of node: every child not yet visited gets
\* its parent pointer and joins the queue.  st = [queue, visited, parents].
RECURSIVE BfsChildren(_, _, _, _)
BfsChildren(st, node, ch, i) ==
    IF i > Len(ch) THEN st
    ELSE LET n == ch[i] IN
         IF n \in st.visited THEN BfsChildren(st, node, ch, i + 1)
         ELSE BfsChildren([queue |-> Append(st.queue, n),
                           visited |-> st.visited \cup {n},
                           parents |-> [st.parents EXCEPT ![n] = node]],
                          node, ch, i + 1)

\* The body of the while loop after node left the queue and getChildren
\* answered ch.
RECURSIVE BfsLoop(_, _, _)
BfsScan(G, rest, node, ch, target) ==
    IF ch.err # "ok" THEN [err |-> ch.err, parents |-> rest.parents]
    ELSE BfsLoop(G, BfsChildren(rest, node, ch.children, 1), target)

\* The while loop: pop the head, stop at the target, else scan the children.
\* [err, parents], err the AssertionError of getChildren.
BfsLoop(G, st, target) ==
    IF st.queue = << >> \/ Head(st.queue) = target
    THEN [err |-> "ok", parents |-> st.parents]
    ELSE BfsScan(G, [st EXCEPT !.queue = Tail(@)], Head(st.queue),
                 getChildren(G, Head(st.queue)), target)

\* path from target back to start along the parent pointers
RECURSIVE BfsPath(_, _, _)
BfsPath(parents, start, i) ==
    IF i = start THEN <<i>> ELSE Append(BfsPath(parents, start, parents[i]), i)

\* Graph.bfs(start, target): err is "AssertionError" when getChildren rejects
\* a start outside self.vertices; found is FALSE for the result None (the
\* target has no parent); else path is the path from start to target.
BfsResult(r, start, target) ==
    IF r.err # "ok" THEN [err |-> r.err, found |-> FALSE, path |-> << >>]
    ELSE IF r.parents[target] = None
    THEN [err |-> "ok", found |-> FALSE, path |-> << >>]
    ELSE [err |-> "ok", found |-> TRUE, path |-> BfsPath(r.parents, start, target)]

bfs(G, start, target) ==
    BfsResult(BfsLoop(G,
                  [queue |-> <<start>>, visited |-> {start},
                   parents |-> [v \in DOMAIN G.nbrs |-> IF v = start THEN start ELSE None]],
                  target),
              start, target)

\* ------------------------------------------------------- FlowNetwork
\* The five mutable parts of a FlowNetwork as one value, with err the
\* exception a method raised ("ok" while none was raised).
Network(cg, fg, rg, kg, c) ==
    [cap |-> cg, flow |-> fg, res |-> rg, costG |-> kg, cost |-> c, err |-> "ok"]

Min(x, y) == IF x <= y THEN x ELSE y

\* The mapping self.cost: has holds the pairs (u, v) with v in cost[u], val
\* the cost of each (0 where there is none), and shared the keys u whose
\* inner dict cost[u] is the very dict costGraph.edges[u], as line 32 of the
\* constructor leaves them.
EmptyCostOn(V) ==
    [has |-> {},
     val |-> [u \in V |-> [v \in V |-> 0]],
     shared |-> {}]

EmptyCost == EmptyCostOn(Vertices)

\* u in self.cost and v in self.cost[u]
HasCost(c, u, v) == <<u, v>> \in c.has

\* The result of a helper that can fail an assertion: a value, or none.
Val(x) == [ok |-> TRUE, val |-> x]
Failed == [ok |-> FALSE, val |-> 0]

\* del self.costGraph[u][v]: the entry leaves cost[u] too when the two are
\* one dict.
DelCostEntry(N, u, v) ==
    [N EXCEPT !.costG = DelEntry(@, u, v),
              !.cost = IF u \in @.shared
                       THEN [@ EXCEPT !.has = @ \ {<<u, v>>}, !.val[u][v] = 0]
                       ELSE @]

\* self.costGraph[v][u] = w: the entry is written to cost[v] too when the
\* two are one dict.
SetCostEntry(N, v, u, w) ==
    [N EXCEPT !.costG = SetEntry(@, v, u, w),
              !.cost = IF v \in @.shared /\ HasKey(N.costG, v)
                       THEN [@ EXCEPT !.has = @ \cup {<<v, u>>}, !.val[v][u] = w]
                       ELSE @]

\* self.costGraph[v] = {u: w}: costGraph gets a dict of its own for v.
SetCostRow(N, v, u, w) ==
    [N EXCEPT !.costG = SetRow(@, v, u, w),
              !.cost.shared = @ \ {v}]

\* FlowNetwork.getMinCapAlongResCycle: the least residual weight on the
\* cycle; every pair must be a residual edge.
RECURSIVE getMinCapAlongResCycle(_, _, _, _)
getMinCapAlongResCycle(N, negCycle, i, amountRedirectedFlow) ==
    IF i >= Len(negCycle) THEN Val(amountRedirectedFlow)
    ELSE LET u == negCycle[i]
             v == negCycle[i + 1]
         IN IF ~(Contains(N.res, u) /\ HasEdge(N.res, u, v)) THEN Failed
            ELSE getMinCapAlongResCycle(N, negCycle, i + 1,
                     Min(amountRedirectedFlow, Weight(N.res, u, v)))

\* FlowNetwork.getMinCapAlongAugPath: capacity minus flow on a capacity edge,
\* the flow of (v, u) on a pair that is no capacity edge.
RECURSIVE getMinCapAlongAugPath(_, _, _, _)
getMinCapAlongAugPath(N, augPath, i, additionalFlow) ==
    IF i >= Len(augPath) THEN Val(additionalFlow)
    ELSE LET u == augPath[i]
             v == augPath[i + 1]
         IN IF ~Contains(N.cap, u) \/ (Contains(N.cap, u) /\ ~HasEdge(N.cap, u, v))
            THEN IF ~(Contains(N.flow, v) /\ HasEdge(N.flow, v, u)) THEN Failed
                 ELSE getMinCapAlongAugPath(N, augPath, i + 1,
                          Min(additionalFlow, Weight(N.flow, v, u)))
            ELSE getMinCapAlongAugPath(N, augPath, i + 1,
                     Min(additionalFlow, Weight(N.cap, u, v) - GetOr0(N.flow, u, v)))

\* PushFlow with the sign of line 194 slipped: the flow of the opposite
\* edge grows where the code makes it shrink.
PushFlowSignSlipped(N, u, v, d) ==
    IF Contains(N.flow, v) /\ HasEdge(N.flow, v, u)
    THEN [N EXCEPT !.flow = SetEntry(@, v, u, Weight(N.flow, v, u) + d)]
    ELSE IF Contains(N.flow, u)
         THEN [N EXCEPT !.flow = SetEntry(@, u, v, GetOr0(N.flow, u, v) + d)]
         ELSE N

\* Lines 193-198: the flow of one pair (u, v) of the path.  An existing flow
\* edge (v, u) is decremented, otherwise flow(u, v) grows when u is a key.
PushFlow(N, u, v, d) ==
    IF Contains(N.flow, v) /\ HasEdge(N.flow, v, u)
    THEN [N EXCEPT !.flow = SetEntry(@, v, u, Weight(N.flow, v, u) - d)]
    ELSE IF Contains(N.flow, u)
         THEN [N EXCEPT !.flow = SetEntry(@, u, v, GetOr0(N.flow, u, v) + d)]
         ELSE N

\* PushResidual without lines 206-210: the cost edge stays when the residual
\* edge is deleted.
PushResidualKeepsCostEdge(N, u, v, d) ==
    IF ~HasEdge(N.res, u, v) THEN [N EXCEPT !.err = "KeyError"]
    ELSE IF ~(d <= Weight(N.res, u, v)) THEN [N EXCEPT !.err = "AssertionError"]
    ELSE IF Weight(N.res, u, v) = d
         THEN [N EXCEPT !.res = DelEntry(@, u, v)]
         ELSE [N EXCEPT !.res = SetEntry(@, u, v, Weight(N.res, u, v) - d)]

\* Lines 201-211: the residual edge (u, v) loses d and is deleted, together
\* with its cost edge, when d is all it had.
PushResidual(N, u, v, d) ==
    IF ~HasEdge(N.res, u, v) THEN [N EXCEPT !.err = "KeyError"]
    ELSE IF ~(d <= Weight(N.res, u, v)) THEN [N EXCEPT !.err = "AssertionError"]
    ELSE IF Weight(N.res, u, v) = d
         THEN LET N1 == [N EXCEPT !.res = DelEntry(@, u, v)]
              IN IF N.costG.keys = << >> THEN N1
                 ELSE IF ~HasEdge(N.costG, u, v) THEN [N1 EXCEPT !.err = "AssertionError"]
                 ELSE DelCostEntry(N1, u, v)
         ELSE [N EXCEPT !.res = SetEntry(@, u, v, Weight(N.res, u, v) - d)]

\* PushReverse that stores d as the weight of an existing reverse edge
\* (v, u) where line 223 adds d to it.
PushReverseOverwrites(N, u, v, d) ==
    IF ~Contains(N.res, v)
    THEN LET N1 == [N EXCEPT !.res = SetRow(@, v, u, d)]
         IN IF N.costG.keys = << >> THEN N1
            ELSE IF Contains(N.costG, v) \/ ~Contains(N.costG, u)
                 THEN [N1 EXCEPT !.err = "AssertionError"]
            ELSE IF ~HasCost(N.cost, u, v) THEN [N1 EXCEPT !.err = "KeyError"]
            ELSE SetCostRow(N1, v, u, -N.cost.val[u][v])
    ELSE LET N1 == [N EXCEPT !.res = SetEntry(@, v, u, d)]
         IN IF N.costG.keys = << >> THEN N1
            ELSE IF ~Contains(N.costG, v) THEN [N1 EXCEPT !.err = "AssertionError"]
            ELSE IF HasCost(N.cost, v, u)
                 THEN SetCostEntry(N1, v, u, N.cost.val[v][u])
            ELSE IF ~HasCost(N.cost, u, v) THEN [N1 EXCEPT !.err = "KeyError"]
            ELSE SetCostEntry(N1, v, u, -N.cost.val[u][v])

\* Lines 213-231: the reverse residual edge (v, u) gains d; its cost is
\* cost[v][u] when (v, u) has an original cost and -cost[u][v] otherwise.
PushReverse(N, u, v, d) ==
    IF ~Contains(N.res, v)
    THEN LET N1 == [N EXCEPT !.res = SetRow(@, v, u, d)]
         IN IF N.costG.keys = << >> THEN N1
            ELSE IF Contains(N.costG, v) \/ ~Contains(N.costG, u)
                 THEN [N1 EXCEPT !.err = "AssertionError"]
            ELSE IF ~HasCost(N.cost, u, v) THEN [N1 EXCEPT !.err = "KeyError"]
            ELSE SetCostRow(N1, v, u, -N.cost.val[u][v])
    ELSE LET N1 == [N EXCEPT !.res = SetEntry(@, v, u, GetOr0(N.res, v, u) + d)]
         IN IF N.costG.keys = << >> THEN N1
            ELSE IF ~Contains(N.costG, v) THEN [N1 EXCEPT !.err = "AssertionError"]
            ELSE IF HasCost(N.cost, v, u)
                 THEN SetCostEntry(N1, v, u, N.cost.val[v][u])
            ELSE IF ~HasCost(N.cost, u, v) THEN [N1 EXCEPT !.err = "KeyError"]
            ELSE SetCostEntry(N1, v, u, -N.cost.val[u][v])

\* One iteration of the for loop of pushAugmentingFlow (lines 188-231).
PushEdge(N, u, v, d) ==
    LET N1 == PushFlow(N, u, v, d)
        N2 == PushResidual(N1, u, v, d)
    IN IF N2.err # "ok" THEN N2 ELSE PushReverse(N2, u, v, d)

\* The for loop of pushAugmentingFlow; an exception leaves the network as
\* the pairs before it made it.
RECURSIVE PushLoop(_, _, _, _)
PushLoop(N, augPath, i, d) ==
    IF N.err # "ok" \/ i >= Len(augPath) THEN N
    ELSE PushLoop(PushEdge(N, augPath[i], augPath[i + 1], d), augPath, i + 1, d)

\* FlowNetwork.pushAugmentingFlow(augPath, costsPresent)
pushAugmentingFlow(N, augPath, costsPresent) ==
    IF costsPresent /\ (N.costG.keys = << >> \/ augPath[Len(augPath)] # augPath[1])
    THEN [N EXCEPT !.err = "AssertionError"]
    ELSE LET additionalFlow ==
                 IF costsPresent THEN getMinCapAlongResCycle(N, augPath, 1, Inf)
                 ELSE getMinCapAlongAugPath(N, augPath, 1, Inf)
         IN IF ~additionalFlow.ok THEN [N EXCEPT !.err = "AssertionError"]
            ELSE PushLoop(N, augPath, 1, additionalFlow.val)

\* FlowNetwork.getAugmentingPath
getAugmentingPath(N) == bfs(N.res, source, sink)

\* sum of f[x] over the x of S
RECURSIVE SumOver(_, _)
SumOver(S, f) ==
    IF S = {} THEN 0
    ELSE LET x == CHOOSE y \in S : TRUE IN f[x] + SumOver(S \ {x}, f)

\* Lines 253-257 of getMaxFlow: the flow on the flow edges that leave source.
FlowOutOfSource(N) ==
    IF Contains(N.flow, source)
    THEN SumOver(Range(N.flow.nbrs[source]), N.flow.wt[source])
    ELSE 0

\* --------------------------------------------- Graph.bellmanFord_SSSP
\* d[v] > d[u] + w where Inf stands for float('inf'): inf + w is inf, and
\* nothing exceeds inf.
Relaxable(d, u, v, w) ==
    /\ d[u] # Inf
    /\ (d[v] = Inf \/ d[v] > d[u] + w)

\* Graph.relax(u, v, d, p) as bellmanFord_SSSP calls it.  st = [d, p, err];
\* dom is the key set of d.
relax(G, u, v, st, dom) ==
    IF ~(u \in dom /\ v \in dom /\ HasKey(G, u) /\ HasEdge(G, u, v))
    THEN [st EXCEPT !.err = "AssertionError"]
    ELSE IF Relaxable(st.d, u, v, Weight(G, u, v))
         THEN [st EXCEPT !.d[v] = st.d[u] + Weight(G, u, v), !.p[v] = u]
         ELSE st

\* for u in self.edges: for v in self.edges[u]: self.relax(u, v, d, p)
RECURSIVE RelaxAll(_, _, _, _, _)
RelaxAll(G, st, dom, el, i) ==
    IF st.err # "ok" \/ i > Len(el) THEN st
    ELSE RelaxAll(G, relax(G, el[i][1], el[i][2], st, dom), dom, el, i + 1)

\* for _ in self.vertices: one pass over all edges per vertex
RECURSIVE RelaxRounds(_, _, _, _, _)
RelaxRounds(G, st, dom, el, n) ==
    IF st.err # "ok" \/ n = 0 THEN st
    ELSE RelaxRounds(G, RelaxAll(G, st, dom, el, 1), dom, el, n - 1)

\* Lines 294-297: [err, k] with k the first edge, in iteration order, that
\* can still be relaxed (0: none).  dom is the key set of d; d[v] or d[u]
\* of a vertex without a key is a KeyError.
RECURSIVE FirstRelaxable(_, _, _, _, _)
FirstRelaxable(G, d, dom, el, i) ==
    IF i > Len(el) THEN [err |-> "ok", k |-> 0]
    ELSE IF el[i][2] \notin dom \/ el[i][1] \notin dom THEN [err |-> "KeyError", k |-> i]
    ELSE IF Relaxable(d, el[i][1], el[i][2], Weight(G, el[i][1], el[i][2]))
    THEN [err |-> "ok", k |-> i]
    ELSE FirstRelaxable(G, d, dom, el, i + 1)

\* The while loop of getCycle: follow the predecessors from nextNode until
\* a vertex repeats.  A vertex without predecessor is a KeyError.
RECURSIVE CycleWalk(_, _, _, _)
CycleWalk(p, nextNode, seen, cycle) ==
    IF nextNode \in seen THEN [err |-> "ok", cycle |-> Append(cycle, nextNode)]
    ELSE IF p[nextNode] = None THEN [err |-> "KeyError", cycle |-> cycle]
    ELSE CycleWalk(p, p[nextNode], seen \cup {nextNode}, Append(cycle, nextNode))

Reverse(seq) == [i \in 1..Len(seq) |-> seq[Len(seq) + 1 - i]]

\* cycle.index(x): the first position of x
IndexOf(seq, x) == CHOOSE i \in 1..Len(seq) : seq[i] = x /\ \A j \in 1..(i - 1) : seq[j] # x

\* Graph.getCycle(v, p): the walk without the vertices before the first
\* occurrence of the repeated vertex, reversed.
getCycle(v, p) ==
    LET walk == CycleWalk(p, v, {}, << >>)
    IN IF walk.err # "ok" THEN walk
       ELSE LET lastNode == walk.cycle[Len(walk.cycle)]
                firstOccurIdx == IndexOf(walk.cycle, lastNode)
            IN [err |-> "ok",
                cycle |-> Reverse(SubSeq(walk.cycle, firstOccurIdx, Len(walk.cycle)))]

\* Graph.bellmanFord_SSSP(src): [err, cycle, d, p] where cycle = << >> stands
\* for the result None of a run that found nothing to relax.
bellmanFord_SSSP(G, src) ==
    LET dom == G.vertices \cup {src}
        st0 == [d |-> [v \in DOMAIN G.nbrs |-> IF v = src THEN 0 ELSE Inf],
                p |-> [v \in DOMAIN G.nbrs |-> None],
                err |-> "ok"]
        el == EdgeList(G, 1)
        st == RelaxRounds(G, st0, dom, el, Cardinality(G.vertices))
        f == FirstRelaxable(G, st.d, dom, el, 1)
    IN IF st.err # "ok" THEN [err |-> st.err, cycle |-> << >>, d |-> st.d, p |-> st.p]
       ELSE IF f.err # "ok" THEN [err |-> f.err, cycle |-> << >>, d |-> st.d, p |-> st.p]
       ELSE IF f.k = 0 THEN [err |-> "ok", cycle |-> << >>, d |-> st.d, p |-> st.p]
       ELSE LET c == getCycle(el[f.k][2], st.p)
            IN [err |-> c.err, cycle |-> c.cycle, d |-> st.d, p |-> st.p]

\* FlowNetwork.getNegCostResidualCycle
getNegCostResidualCycle(N) == bellmanFord_SSSP(N.costG, sink)

\* addEdge without the test of lines 121-122: a negative capacity is stored
\* like any other.
addEdgeUnchecked(N, u, v, capacity, given, c) ==
    [N EXCEPT !.cap = GraphAddEdge(@, u, v, capacity),
              !.flow = GraphAddEdge(@, u, v, 0),
              !.res = GraphAddEdge(@, u, v, capacity),
              !.costG = IF given THEN GraphAddEdge(@, u, v, c) ELSE @,
              !.cost = IF given
                       THEN [@ EXCEPT !.has = @ \cup {<<u, v>>}, !.val[u][v] = c]
                       ELSE @]

\* FlowNetwork.addEdge(u, v, capacity, cost); given is FALSE for cost=None.
addEdge(N, u, v, capacity, given, c) ==
    IF capacity < 0 THEN [N EXCEPT !.err = "NegativeCapacityException"]
    ELSE [N EXCEPT !.cap = GraphAddEdge(@, u, v, capacity),
                   !.flow = GraphAddEdge(@, u, v, 0),
                   !.res = GraphAddEdge(@, u, v, capacity),
                   !.costG = IF given THEN GraphAddEdge(@, u, v, c) ELSE @,
                   !.cost = IF given
                            THEN [@ EXCEPT !.has = @ \cup {<<u, v>>},
                                           !.val[u][v] = c]
                            ELSE @]

\* FlowNetwork.resetFlowAndResidualGraph: every capacity edge, in iteration
\* order, gets its capacity as residual and a flow of 0.
RECURSIVE resetFlowAndResidualGraph(_, _, _)
resetFlowAndResidualGraph(N, el, i) ==
    IF i > Len(el) THEN N
    ELSE LET u == el[i][1]
             v == el[i][2]
         IN resetFlowAndResidualGraph(
                [N EXCEPT !.res = GraphAddEdge(@, u, v, Weight(N.cap, u, v)),
                          !.flow = GraphAddEdge(@, u, v, 0)],
                el, i + 1)

\* Graph(vertices, edges): the graph keeps the objects it is given.
GraphOf(vertices, edges) ==
    [vertices |-> vertices, keys |-> edges.keys, nbrs |-> edges.nbrs, wt |-> edges.wt]

\* FlowNetwork(source, sink, vertices, capacities, cost): the capacities are
\* taken as given, flow and residual are derived from them, and costGraph
\* gets a new outer dict whose values are the inner dicts of cost.
FlowNetworkInit(vertices, capacities, costDict) ==
    LET N == Network(GraphOf(vertices, capacities),
                     GraphOf(vertices, EmptyGraph),
                     GraphOf(vertices, EmptyGraph),
                     GraphOf(vertices, costDict),
                     [has |-> EdgeSet(costDict),
                      val |-> costDict.wt,
                      shared |-> Range(costDict.keys)])
    IN resetFlowAndResidualGraph(N, EdgeList(N.cap, 1), 1)

\* Graph.serialize: the dict of dicts, keys as strings, in iteration order;
\* a key whose dict is empty is left out.
serialize(G) ==
    [keys |-> SelectSeq(G.keys, LAMBDA u : G.nbrs[u] # << >>),
     nbrs |-> G.nbrs,
     wt |-> G.wt]

\* FlowNetwork.serializeToJSON: what json.dump writes and json.load reads
\* back; "vertices" is a JSON array, which json.load returns as a list.
serializeToJSON(N) ==
    [vertices |-> N.cap.vertices,
     capacities |-> serialize(N.cap),
     cost |-> N.cost,
     flow |-> serialize(N.flow),
     residual |-> serialize(N.res),
     residualCost |-> serialize(N.costG)]

\* Graph.deserialize(data): line 124 looks the Vertex u up in data, whose
\* keys are strings, so that the first key of data is a KeyError.
GraphDeserialize(data) ==
    IF data.keys = << >> THEN [err |-> "ok", G |-> EmptyGraph]
    ELSE [err |-> "KeyError", G |-> EmptyGraph]

\* FlowNetwork.createFlowNetwork on the parts of data.  The constructor gets
\* the list data["vertices"]; the first capacity edge makes
\* resetFlowAndResidualGraph call Graph.addEdge, whose line 99 calls union
\* on that list: AttributeError.  The graphs the constructor derived are
\* then replaced by the deserialized ones.
createFlowNetwork(N, data) ==
    IF data.capacities.keys # << >> THEN [N EXCEPT !.err = "AttributeError"]
    ELSE LET f == GraphDeserialize(data.flow)
             r == GraphDeserialize(data.residual)
             k == GraphDeserialize(data.residualCost)
         IN IF f.err # "ok" \/ r.err # "ok" \/ k.err # "ok"
            THEN [N EXCEPT !.err = "KeyError"]
            ELSE Network(GraphOf(data.vertices, data.capacities), f.G, r.G, k.G,
                         [data.cost EXCEPT !.shared = {}])

\* FlowNetwork.deserialize of the file serializeToJSON wrote for N; when it
\* raises the caller is left with N.
deserialize(N) == createFlowNetwork(N, serializeToJSON(N))

\* CostAndFlow without the test of line 301: the flow of every edge is
\* added to the flow value, not only that of the edges out of the source.
RECURSIVE CostAndFlowEveryEdge(_, _, _, _)
CostAndFlowEveryEdge(N, el, i, acc) ==
    IF ~acc.ok \/ i > Len(el) THEN acc
    ELSE LET u == el[i][1]
             v == el[i][2]
             f == Weight(N.flow, u, v)
         IN IF f = 0 THEN CostAndFlowEveryEdge(N, el, i + 1, acc)
            ELSE IF ~HasCost(N.cost, u, v) THEN [acc EXCEPT !.ok = FALSE]
            ELSE CostAndFlowEveryEdge(N, el, i + 1,
                     [ok |-> TRUE,
                      minCost |-> acc.minCost + f * N.cost.val[u][v],
                      maxFlow |-> acc.maxFlow + f])

\* Lines 293-303 of getMinCostMaxFlow: over the flow edges with a flow other
\* than 0, the sum of flow * cost and the flow that leaves source.  A flow
\* edge without original cost fails the assertion.
RECURSIVE CostAndFlow(_, _, _, _)
CostAndFlow(N, el, i, acc) ==
    IF ~acc.ok \/ i > Len(el) THEN acc
    ELSE LET u == el[i][1]
             v == el[i][2]
             f == Weight(N.flow, u, v)
         IN IF f = 0 THEN CostAndFlow(N, el, i + 1, acc)
            ELSE IF ~HasCost(N.cost, u, v) THEN [acc EXCEPT !.ok = FALSE]
            ELSE CostAndFlow(N, el, i + 1,
                     [ok |-> TRUE,
                      minCost |-> acc.minCost + f * N.cost.val[u][v],
                      maxFlow |-> IF u = source THEN acc.maxFlow + f ELSE acc.maxFlow])

\* ------------------------------------------------------------ state
\* The four graphs and the cost mapping of one FlowNetwork(source, sink);
\* pc is where the caller is: "build" (adding edges), "getMaxFlow" (in the
\* loop of lines 248-251), "cancel" (in the loop of lines 287-290),
\* "returned" or "raised"; query is the method the caller invoked; inner is
\* what the getMaxFlow call of line 286 returned; ret is the result
\* returned; steps counts the iterations of the two loops of the query and
\* cancels those of them that pushed flow along a cycle.
VARIABLES capacityGraph, flowGraph, residualGraph, costGraph, cost,
          pc, query, inner, ret, steps, cancels

vars == <<capacityGraph, flowGraph, residualGraph, costGraph, cost,
          pc, query, inner, ret, steps, cancels>>

graphs == <<capacityGraph, flowGraph, residualGraph, costGraph, cost>>

\* The network the variables hold.
Net == Network(capacityGraph, flowGraph, residualGraph, costGraph, cost)

\* The variables take the parts of N.
Becomes(N) ==
    /\ capacityGraph' = N.cap
    /\ flowGraph' = N.flow
    /\ residualGraph' = N.res
    /\ costGraph' = N.costG
    /\ cost' = N.cost

\* The pairs addEdge is called with: no self loop and, as its docstring
\* asks, no edge back to the source.
Pairs == {e \in Vertices \X Vertices : e[1] # e[2] /\ e[2] # source}

\* FlowNetwork(source, sink) without vertices, capacities or cost.
Init ==
    /\ capacityGraph = EmptyGraph
    /\ flowGraph = EmptyGraph
    /\ residualGraph = EmptyGraph
    /\ costGraph = EmptyGraph
    /\ cost = EmptyCost
    /\ pc = "build"
    /\ query = "none"
    /\ inner = 0
    /\ ret = [minCost |-> 0, maxFlow |-> 0]
    /\ steps = 0
    /\ cancels = 0

\* The order in which the callers of the model add their edges.
Rank(v) == CASE v = "s" -> 1 [] v = "a" -> 2 [] v = "b" -> 3 [] v = "t" -> 4
Before(e, f) == Rank(e[1]) < Rank(f[1]) \/ (e[1] = f[1] /\ Rank(e[2]) < Rank(f[2]))

\* addEdge(u, v, capacity, c) on a pair that comes after the edges added so
\* far; every call of one network gives a cost, or none does.
AddEdge(u, v, capacity, given, c) ==
    /\ pc = "build"
    /\ \A e \in EdgeSet(capacityGraph) : Before(e, <<u, v>>)
    /\ capacityGraph.keys # << >> => (given <=> costGraph.keys # << >>)
    /\ Becomes(addEdge(Net, u, v, capacity, given, c))
    /\ UNCHANGED <<pc, query, inner, ret, steps, cancels>>

\* The caller invokes getMaxFlow() or getMinCostMaxFlow(), the latter on a
\* network with costs; both start with the loop of getMaxFlow.
Call(q) ==
    /\ pc = "build"
    /\ q = "getMinCostMaxFlow" => costGraph.keys # << >>
    /\ pc' = "getMaxFlow"
    /\ query' = q
    /\ UNCHANGED <<graphs, inner, ret, steps, cancels>>

\* One iteration of the loop of getMaxFlow: an augmenting path was found
\* and pushAugmentingFlow(path, costsPresent=False) runs.
Augment ==
    /\ pc = "getMaxFlow"
    /\ steps < MaxSteps
    /\ LET r == getAugmentingPath(Net)
       IN /\ r.err = "ok" /\ r.found
          /\ LET N == pushAugmentingFlow(Net, r.path, FALSE)
             IN /\ Becomes(N)
                /\ pc' = IF N.err = "ok" THEN "getMaxFlow" ELSE "raised"
    /\ steps' = steps + 1
    /\ UNCHANGED <<query, inner, ret, cancels>>

\* getAugmentingPath raises: bfs asks for the children of a source that is
\* no vertex of the residual graph.
AugmentRaise ==
    /\ pc = "getMaxFlow"
    /\ getAugmentingPath(Net).err # "ok"
    /\ pc' = "raised"
    /\ UNCHANGED <<graphs, query, inner, ret, steps, cancels>>

\* MaxFlowReturn with an if for the while of line 249: getMaxFlow returns
\* although an augmenting path is left.
MaxFlowReturnEarly ==
    /\ pc = "getMaxFlow"
    /\ getAugmentingPath(Net).err = "ok"
    /\ IF query \in {"getMaxFlow", "getMaxFlowAgain"}
       THEN /\ pc' = "returned"
            /\ ret' = [minCost |-> 0, maxFlow |-> FlowOutOfSource(Net)]
            /\ UNCHANGED inner
       ELSE /\ pc' = "cancel"
            /\ inner' = FlowOutOfSource(Net)
            /\ UNCHANGED ret
    /\ UNCHANGED <<graphs, query, steps, cancels>>

\* No augmenting path is left: getMaxFlow returns the flow out of source,
\* to the caller (of a first call or of a second one, "getMaxFlowAgain") or
\* to line 286 of getMinCostMaxFlow.
MaxFlowReturn ==
    /\ pc = "getMaxFlow"
    /\ LET r == getAugmentingPath(Net) IN r.err = "ok" /\ ~r.found
    /\ IF query \in {"getMaxFlow", "getMaxFlowAgain"}
       THEN /\ pc' = "returned"
            /\ ret' = [minCost |-> 0, maxFlow |-> FlowOutOfSource(Net)]
            /\ UNCHANGED inner
       ELSE /\ pc' = "cancel"
            /\ inner' = FlowOutOfSource(Net)
            /\ UNCHANGED ret
    /\ UNCHANGED <<graphs, query, steps, cancels>>

\* One iteration of the loop of getMinCostMaxFlow: Bellman-Ford from the
\* sink found a negative cycle of costGraph and
\* pushAugmentingFlow(cycle, costsPresent=True) runs; or bellmanFord_SSSP
\* raises, when getCycle meets a vertex without predecessor.
CancelCycle ==
    /\ pc = "cancel"
    /\ steps < MaxSteps
    /\ LET r == getNegCostResidualCycle(Net)
       IN IF r.err # "ok"
          THEN /\ pc' = "raised"
               /\ UNCHANGED <<graphs, cancels>>
          ELSE /\ r.cycle # << >>
               /\ LET N == pushAugmentingFlow(Net, r.cycle, TRUE)
                  IN /\ Becomes(N)
                     /\ pc' = IF N.err = "ok" THEN "cancel" ELSE "raised"
               /\ cancels' = cancels + 1
    /\ steps' = steps + 1
    /\ UNCHANGED <<query, inner, ret>>

\* No negative cycle is found: getMinCostMaxFlow sums cost and flow and
\* returns them, or fails the assertion of line 298.
MinCostReturn ==
    /\ pc = "cancel"
    /\ LET r == getNegCostResidualCycle(Net) IN r.err = "ok" /\ r.cycle = << >>
    /\ LET acc == CostAndFlow(Net, EdgeList(flowGraph, 1), 1,
                              [ok |-> TRUE, minCost |-> 0, maxFlow |-> 0])
       IN IF acc.ok
          THEN /\ pc' = "returned"
               /\ ret' = [minCost |-> acc.minCost, maxFlow |-> acc.maxFlow]
          ELSE /\ pc' = "raised"
               /\ UNCHANGED ret
    /\ UNCHANGED <<graphs, query, inner, steps, cancels>>

\* The caller adds one more edge, to a network with costs or to one without.
Build ==
    /\ Cardinality(EdgeSet(capacityGraph)) < MaxEdges
    /\ \E e \in Pairs, capacity \in Caps :
           \/ AddEdge(e[1], e[2], capacity, FALSE, 0)
           \/ \E c \in Costs : AddEdge(e[1], e[2], capacity, TRUE, c)

\* The caller adds one more edge to a network without costs; the capacity
\* may be 0, the default of addEdge.
BuildPlain ==
    /\ Cardinality(EdgeSet(capacityGraph)) < MaxPlainEdges
    /\ \E e \in Pairs, capacity \in PlainCaps :
           AddEdge(e[1], e[2], capacity, FALSE, 0)

Next ==
    \/ Build
    \/ \E q \in {"getMaxFlow", "getMinCostMaxFlow"} : Call(q)
    \/ Augment
    \/ AugmentRaise
    \/ MaxFlowReturn
    \/ CancelCycle
    \/ MinCostReturn

Spec == Init /\ [][Next]_vars

\* Networks without costs, queried by getMaxFlow.
NextPlain ==
    \/ BuildPlain
    \/ Call("getMaxFlow")
    \/ Augment
    \/ AugmentRaise
    \/ MaxFlowReturn

SpecPlain == Init /\ [][NextPlain]_vars

\* ------------------------------------------- networks in further use
\* The caller adds one more edge to a small network built by addEdge.
BuildSmall ==
    /\ Cardinality(EdgeSet(capacityGraph)) < MaxSmallEdges
    /\ cost.shared = {}
    /\ \E e \in Pairs, capacity \in Caps :
           \/ AddEdge(e[1], e[2], capacity, FALSE, 0)
           \/ \E c \in Costs : AddEdge(e[1], e[2], capacity, TRUE, c)

\* The caller passes the vertices, the capacities and the costs it has
\* put together to the constructor and goes on with the new network.
Construct ==
    /\ pc = "build"
    /\ cost.shared = {}
    /\ costGraph.keys # << >>
    /\ Becomes(FlowNetworkInit(capacityGraph.vertices, capacityGraph, costGraph))
    /\ UNCHANGED <<pc, query, inner, ret, steps, cancels>>

\* The caller calls addEdge with a negative capacity, while it builds the
\* network or after a query has returned; the exception ends the run.
AddEdgeRejected ==
    /\ pc \in {"build", "returned"}
    /\ query \in {"none", "getMaxFlow", "getMinCostMaxFlow"}
    /\ \E e \in Pairs, capacity \in NegativeCaps, c \in Costs :
           LET N == addEdge(Net, e[1], e[2], capacity, costGraph.keys # << >>, c)
           IN /\ Becomes(N)
              /\ pc' = IF N.err = "ok" THEN pc ELSE "raised"
    /\ query' = "addEdge"
    /\ UNCHANGED <<inner, ret, steps, cancels>>

\* The caller adds one more edge to a network that will get another edge
\* after its flow is computed.
BuildFew ==
    /\ Cardinality(EdgeSet(capacityGraph)) < MaxFewEdges
    /\ \E e \in Pairs, capacity \in Caps :
           \/ AddEdge(e[1], e[2], capacity, FALSE, 0)
           \/ \E c \in Costs : AddEdge(e[1], e[2], capacity, TRUE, c)

\* The caller adds an edge to a network on which a query has returned, with
\* a cost when the network has costs.
AddEdgeLater ==
    /\ pc = "returned"
    /\ query \in {"getMaxFlow", "getMinCostMaxFlow"}
    /\ \E e \in Pairs, capacity \in Caps, c \in Costs :
           Becomes(addEdge(Net, e[1], e[2], capacity, costGraph.keys # << >>, c))
    /\ pc' = "extended"
    /\ UNCHANGED <<query, inner, ret, steps, cancels>>

\* The caller invokes getMaxFlow() again on the network on which it has
\* returned.
CallAgain ==
    /\ pc = "returned"
    /\ query = "getMaxFlow"
    /\ pc' = "getMaxFlow"
    /\ query' = "getMaxFlowAgain"
    /\ UNCHANGED <<graphs, inner, ret, steps, cancels>>

\* The caller writes the network to a file with serializeToJSON and reads
\* the file back with FlowNetwork.deserialize, to go on with the network read.
RoundTrip ==
    /\ pc \in {"build", "returned"}
    /\ query \in {"none", "getMaxFlow", "getMinCostMaxFlow"}
    /\ LET N == deserialize(Net)
       IN /\ Becomes(N)
          /\ pc' = IF N.err = "ok" THEN "returned" ELSE "raised"
    /\ query' = "deserialize"
    /\ UNCHANGED <<inner, ret, steps, cancels>>

NextLater ==
    \/ BuildSmall
    \/ Construct
    \/ AddEdgeRejected
    \/ CallAgain
    \/ RoundTrip
    \/ \E q \in {"getMaxFlow", "getMinCostMaxFlow"} : Call(q)
    \/ Augment
    \/ AugmentRaise
    \/ MaxFlowReturn
    \/ CancelCycle
    \/ MinCostReturn

SpecLater == Init /\ [][NextLater]_vars

\* Networks, with costs or without, that get an edge after getMaxFlow has
\* returned.
NextExtend ==
    \/ BuildFew
    \/ Call("getMaxFlow")
    \/ Augment
    \/ AugmentRaise
    \/ MaxFlowReturn
    \/ AddEdgeLater

SpecExtend == Init /\ [][NextExtend]_vars

\* -------------------------------------------------- a Graph on its own
\* A Graph g as the __main__ of Graph.py builds one, by addEdge calls in any
\* order, and one call of g.bellmanFord_SSSP(src).  costGraph, the graph
\* on which the program runs Bellman-Ford, holds g; the other parts of the
\* network stay empty; ret holds src and what the call returned.
GraphVertices == {"s", "a", "b"}
GraphPairs == {e \in GraphVertices \X GraphVertices : e[1] # e[2]}

GraphBuild ==
    /\ pc = "build"
    /\ Cardinality(EdgeSet(costGraph)) < MaxGraphEdges
    /\ \E e \in GraphPairs \ EdgeSet(costGraph), w \in GraphWeights :
           costGraph' = GraphAddEdge(costGraph, e[1], e[2], w)
    /\ UNCHANGED <<capacityGraph, flowGraph, residualGraph, cost,
                   pc, query, inner, ret, steps, cancels>>

\* g.addVertex(x) while g is built
GraphAddVertex ==
    /\ pc = "build"
    /\ \E x \in GraphVertices : costGraph' = addVertex(costGraph, x)
    /\ UNCHANGED <<capacityGraph, flowGraph, residualGraph, cost,
                   pc, query, inner, ret, steps, cancels>>

RunBellmanFord ==
    /\ pc = "build"
    /\ \E src \in costGraph.vertices :
           LET r == bellmanFord_SSSP(costGraph, src)
           IN /\ ret' = [src |-> src, err |-> r.err, cycle |-> r.cycle,
                         d |-> r.d, p |-> r.p]
              /\ pc' = IF r.err = "ok" THEN "returned" ELSE "raised"
    /\ query' = "bellmanFord_SSSP"
    /\ UNCHANGED <<graphs, inner, steps, cancels>>

NextGraph ==
    \/ GraphBuild
    \/ GraphAddVertex
    \/ RunBellmanFord

SpecGraph == Init /\ [][NextGraph]_vars

\* ------------------------------------------ the searches of a Graph
\* A Graph g built by addEdge calls in any order, weight 0 included, and
\* one call of g.bfs, g.getWeight or g.dijkstra_SSSP.  costGraph holds g;
\* ret holds the arguments of the call and what it returned.
SearchWeights == {-1, 0, 1}
MaxSearchEdges == 4

\* getWeight as its comment describes it: 0 for an edge that is absent.
getWeightOrZero(G, u, v) == [err |-> "ok", val |-> GetOr0(G, u, v)]

\* Graph.getWeight(u, v): the stored weight, ValueError without the edge.
getWeight(G, u, v) ==
    IF ~HasKey(G, u) \/ ~HasEdge(G, u, v)
    THEN [err |-> "ValueError"]
    ELSE [err |-> "ok", val |-> Weight(G, u, v)]

\* ------------------------------------------------------ Graph.verifyDAG
\* traverse(root) of verifyDAG with curr_nodes, the vertices on the path
\* from s to root: [err, curr_nodes] where err is "AssertionError" when a
\* child is on that path (assert False) or getChildren rejects root.
RECURSIVE traverse(_, _, _)
RECURSIVE traverseChildren(_, _, _, _)

\* traverse without curr_nodes.remove(root): every vertex seen stays.
traverseKeepsNodes(G, root, curr_nodes) ==
    IF root \notin G.vertices
    THEN [err |-> "AssertionError", curr_nodes |-> curr_nodes]
    ELSE traverseChildren(G, getChildren(G, root).children, 1,
                          [err |-> "ok", curr_nodes |-> curr_nodes \cup {root}])

traverse(G, root, curr_nodes) ==
    IF root \notin G.vertices
    THEN [err |-> "AssertionError", curr_nodes |-> curr_nodes]
    ELSE LET r == traverseChildren(G, getChildren(G, root).children, 1,
                      [err |-> "ok", curr_nodes |-> curr_nodes \cup {root}])
         IN IF r.err # "ok" THEN r ELSE [r EXCEPT !.curr_nodes = @ \ {root}]

\* for child in self.getChildren(root)
traverseChildren(G, ch, i, st) ==
    IF st.err # "ok" \/ i > Len(ch) THEN st
    ELSE IF ch[i] \in st.curr_nodes THEN [st EXCEPT !.err = "AssertionError"]
    ELSE traverseChildren(G, ch, i + 1, traverse(G, ch[i], st.curr_nodes))

verifyDAG(G, s) == traverse(G, s, {}).err

\* ------------------------------------------- heapq on (distance, vertex)
\* x < y on tuples (distance, Vertex): the distances decide when they
\* differ; with equal distances and different vertices the answer is the
\* Vertex that Vertex.__lt__ returns, which counts as true; equal tuples
\* are not less.
TupleLt(x, y) == x[1] < y[1] \/ (x[1] = y[1] /\ x[2] # y[2])

\* heapq._siftdown(heap, startpos, pos); positions count from 0.
RECURSIVE SiftdownLoop(_, _, _, _)
SiftdownLoop(heap, newitem, startpos, pos) ==
    IF pos > startpos
    THEN LET parentpos == (pos - 1) \div 2
             parent == heap[parentpos + 1]
         IN IF TupleLt(newitem, parent)
            THEN SiftdownLoop([heap EXCEPT ![pos + 1] = parent], newitem,
                              startpos, parentpos)
            ELSE [heap EXCEPT ![pos + 1] = newitem]
    ELSE [heap EXCEPT ![pos + 1] = newitem]

siftdown(heap, startpos, pos) == SiftdownLoop(heap, heap[pos + 1], startpos, pos)

\* heapq._siftup(heap, pos): the smaller child moves up until a leaf is
\* reached, then the item sifts down from there.
RECURSIVE SiftupLoop(_, _, _)
SiftupLoop(heap, pos, childpos) ==
    IF childpos < Len(heap)
    THEN LET rightpos == childpos + 1
             c == IF rightpos < Len(heap)
                     /\ ~TupleLt(heap[childpos + 1], heap[rightpos + 1])
                  THEN rightpos ELSE childpos
         IN SiftupLoop([heap EXCEPT ![pos + 1] = heap[c + 1]], c, 2 * c + 1)
    ELSE [heap |-> heap, pos |-> pos]

siftup(heap, pos) ==
    LET newitem == heap[pos + 1]
        r == SiftupLoop(heap, pos, 2 * pos + 1)
    IN siftdown([r.heap EXCEPT ![r.pos + 1] = newitem], pos, r.pos)

heappush(heap, item) == siftdown(Append(heap, item), 0, Len(heap))

\* heapq.heappop(heap): [item, heap]
heappop(heap) ==
    LET lastelt == heap[Len(heap)]
        rest == SubSeq(heap, 1, Len(heap) - 1)
    IN IF rest = << >> THEN [item |-> lastelt, heap |-> rest]
       ELSE [item |-> rest[1], heap |-> siftup([rest EXCEPT ![1] = lastelt], 0)]

\* -------------------------------------------------- Graph.dijkstra_SSSP
\* relax where a vertex keeps the first distance it was given.
DijkstraRelaxFirstLabel(G, u, v, st, curr_d) ==
    IF ~(u \in st.keys /\ v \in st.keys /\ HasKey(G, u) /\ HasEdge(G, u, v))
    THEN [st EXCEPT !.err = "AssertionError"]
    ELSE IF st.d[v] = Inf /\ Relaxable(st.d, u, v, Weight(G, u, v))
         THEN [st EXCEPT !.d[v] = st.d[u] + Weight(G, u, v),
                         !.p[v] = u,
                         !.pq = heappush(@, <<curr_d + Weight(G, u, v), v>>)]
         ELSE st

\* Graph.relax(u, v, d, parentMap, priority_queue, curr_d) as dijkstra_SSSP
\* calls it.  st = [d, keys, p, pq, stale, err] with keys the key set of d.
DijkstraRelax(G, u, v, st, curr_d) ==
    IF ~(u \in st.keys /\ v \in st.keys /\ HasKey(G, u) /\ HasEdge(G, u, v))
    THEN [st EXCEPT !.err = "AssertionError"]
    ELSE IF Relaxable(st.d, u, v, Weight(G, u, v))
         THEN [st EXCEPT !.d[v] = st.d[u] + Weight(G, u, v),
                         !.p[v] = u,
                         !.pq = heappush(@, <<curr_d + Weight(G, u, v), v>>)]
         ELSE st

\* for v in self.getChildren(u): self.relax(...)
RECURSIVE DijkstraChildren(_, _, _, _, _, _)
DijkstraChildren(G, u, ch, i, st, curr_d) ==
    IF st.err # "ok" \/ i > Len(ch) THEN st
    ELSE DijkstraChildren(G, u, ch, i + 1, DijkstraRelax(G, u, ch[i], st, curr_d), curr_d)

\* The body of the while loop once getChildren(u) answered ch.
RECURSIVE DijkstraLoop(_, _)
DijkstraScan(G, u, ch, popped, curr_d) ==
    IF ch.err # "ok" THEN [popped EXCEPT !.err = ch.err]
    ELSE DijkstraLoop(G, DijkstraChildren(G, u, ch.children, 1, popped, curr_d))

\* while priority_queue: pop the least entry, skip it when it is stale;
\* stale counts the entries skipped.
DijkstraLoop(G, st) ==
    IF st.err # "ok" \/ st.pq = << >> THEN st
    ELSE LET top == heappop(st.pq)
             curr_d == top.item[1]
             u == top.item[2]
             popped == [st EXCEPT !.pq = top.heap]
         IN IF curr_d > st.d[u]
            THEN DijkstraLoop(G, [popped EXCEPT !.stale = @ + 1])
            ELSE DijkstraScan(G, u, getChildren(G, u), popped, curr_d)

\* Graph.dijkstra_SSSP(source): [err, d, p, stale]; without "ok" nothing is
\* returned and d, p are the maps as they were when the exception left.
dijkstra_SSSP(G, src) ==
    LET st0 == [d |-> [v \in Vertices |-> IF v = src THEN 0 ELSE Inf],
                keys |-> G.vertices \cup {src},
                p |-> [v \in Vertices |-> IF v = src THEN src ELSE None],
                pq |-> <<<<0, src>>>>,
                stale |-> 0,
                err |-> "ok"]
    IN IF verifyDAG(G, src) # "ok"
       THEN [err |-> "AssertionError", d |-> [v \in Vertices |-> Inf],
             p |-> [v \in Vertices |-> None], stale |-> 0]
       ELSE LET st == DijkstraLoop(G, st0)
            IN [err |-> st.err, d |-> st.d, p |-> st.p, stale |-> st.stale]

\* ---------------------------------------------------------- the calls
SearchBuild ==
    /\ pc = "build"
    /\ Cardinality(EdgeSet(costGraph)) < MaxSearchEdges
    /\ \E e \in GraphPairs \ EdgeSet(costGraph), w \in SearchWeights :
           costGraph' = GraphAddEdge(costGraph, e[1], e[2], w)
    /\ UNCHANGED <<capacityGraph, flowGraph, residualGraph, cost,
                   pc, query, inner, ret, steps, cancels>>

RunBfs ==
    /\ pc = "build"
    /\ \E start \in costGraph.vertices, target \in costGraph.vertices :
           LET r == bfs(costGraph, start, target)
           IN /\ ret' = [start |-> start, target |-> target, err |-> r.err,
                         found |-> r.found, path |-> r.path]
              /\ pc' = IF r.err = "ok" THEN "returned" ELSE "raised"
    /\ query' = "bfs"
    /\ UNCHANGED <<graphs, inner, steps, cancels>>

RunGetWeight ==
    /\ pc = "build"
    /\ \E u \in GraphVertices, v \in GraphVertices :
           LET r == getWeight(costGraph, u, v)
           IN /\ ret' = [u |-> u, v |-> v, r |-> r]
              /\ pc' = IF r.err = "ok" THEN "returned" ELSE "raised"
    /\ query' = "getWeight"
    /\ UNCHANGED <<graphs, inner, steps, cancels>>

RunDijkstra ==
    /\ pc = "build"
    /\ \E src \in costGraph.vertices :
           LET r == dijkstra_SSSP(costGraph, src)
           IN /\ ret' = [src |-> src, err |-> r.err, d |-> r.d, p |-> r.p,
                         stale |-> r.stale]
              /\ pc' = IF r.err = "ok" THEN "returned" ELSE "raised"
    /\ query' = "dijkstra_SSSP"
    /\ UNCHANGED <<graphs, inner, steps, cancels>>

NextSearch ==
    \/ SearchBuild
    \/ GraphAddVertex
    \/ RunBfs
    \/ RunGetWeight
    \/ RunDijkstra

SpecSearch == Init /\ [][NextSearch]_vars

\* --------------------------------------------------------- midnights.py
POINTS_REQ == 59
STRONGLY_AGAINST_PENALTY == 50
NEED_MIDNIGHT_REWARD == -50
LIMITED_OPTIONS_REWARD == -40
LIMITED_OPTIONS_MIDNIGHTS_REQ == 2
POINT_FAIRNESS_PENALTY_MULTIPLIER == 5
MIDNIGHTS_PER_DAY_LIMIT == 1
MIDNIGHTS_PER_WEEK_LIMIT == 2
CAN_ASSIGN_NOT_PREF_MIDNIGHTS == TRUE

\* The other setting of the flag of line 26.
AssignNotPrefDays == TRUE
CAN_ASSIGN_NOT_PREF_DAYS == FALSE

\* The inputs of the model: two people, three days with the midnight "x"
\* on each, one or two people required for it, points of 0 or 59.
MidnightPeople == <<"A", "B">>
MidnightDays == <<"Monday", "Tuesday", "Wednesday">>
MidnightKinds == {"x"}
Progresses == {0, 59}
MaxNumReq == 2
MaxPushes == 12

\* "%r" % i
Repr(i) == CASE i = 0 -> "0" [] i = 1 -> "1" [] i = 2 -> "2" [] i = 3 -> "3"

\* createNewMidnightVertex(day, m, i) and createNewDayVertex(day, boi)
createNewMidnightVertex(day, m, i) == day \o "|" \o m \o "|" \o Repr(i)
createNewDayVertex(day, boi) == day \o "|" \o boi

\* The values a Vertex of a midnights network can have; "s" and "t" stand
\* for Vertex("S") and Vertex("T"), the source and the sink.
MidnightVertices ==
    {source, sink} \cup Range(MidnightPeople)
    \cup {createNewDayVertex(d, b) : d \in Range(MidnightDays), b \in Range(MidnightPeople)}
    \cup {createNewMidnightVertex(d, m, i) :
              d \in Range(MidnightDays), m \in MidnightKinds, i \in 0..MaxNumReq}

\* weightedPersonCost: int(round(PERSON_BASE_COST ** (1 + p / POINTS_REQ)))
\* for the points p of Progresses, 10 ** 1 and 10 ** 2.
weightedPersonCost(pointsProgress) ==
    CASE pointsProgress = 0 -> 10
      [] pointsProgress = 59 -> 100

\* getCostBoiDayToMidnight; int() of the non-negative quotient rounds down.
getCostBoiDayToMidnight(preferMidnight, midnightVal, boiPoints, numPref, numAvail) ==
    LET midnightPrefPenalty == IF ~preferMidnight THEN STRONGLY_AGAINST_PENALTY ELSE 1
        midnightNeededReward ==
            IF preferMidnight /\ numPref = 1 THEN NEED_MIDNIGHT_REWARD ELSE 0
        limitedOptionsReward ==
            IF preferMidnight /\ numAvail <= LIMITED_OPTIONS_MIDNIGHTS_REQ
            THEN LIMITED_OPTIONS_REWARD ELSE 0
    IN midnightPrefPenalty + midnightNeededReward + limitedOptionsReward
       + ((midnightVal * midnightVal * boiPoints * POINT_FAIRNESS_PENALTY_MULTIPLIER)
              \div POINTS_REQ)

\* the concatenation of the sequences ss[i], ss[i + 1], ...
RECURSIVE Flat(_, _)
Flat(ss, i) == IF i > Len(ss) THEN << >> ELSE ss[i] \o Flat(ss, i + 1)

EdgeCall(u, v, capacity, c) == [u |-> u, v |-> v, capacity |-> capacity, c |-> c]

\* midnightsPrefCountMap: the number of people who prefer m; a midnight
\* that nobody prefers has no key.
PrefCount(inp, m) ==
    Cardinality({b \in DOMAIN inp.midnightPreferences : m \in inp.midnightPreferences[b]})

\* Lines 185-188: the edges from the source to the people.
PersonCalls(inp) ==
    [k \in 1..Len(inp.people) |->
        EdgeCall(source, inp.people[k], MIDNIGHTS_PER_WEEK_LIMIT,
                 weightedPersonCost(inp.progress[inp.people[k]]))]

\* Lines 190-200: the edges from each person to their days.
DayCalls(inp) ==
    Flat([k \in 1..Len(inp.people) |->
             Flat([j \in 1..Len(inp.days) |->
                      IF CAN_ASSIGN_NOT_PREF_DAYS
                         \/ inp.days[j] \in inp.dayPreferences[inp.people[k]]
                      THEN <<EdgeCall(inp.people[k],
                                      createNewDayVertex(inp.days[j], inp.people[k]),
                                      MIDNIGHTS_PER_DAY_LIMIT, 1)>>
                      ELSE << >>], 1)], 1)

\* Lines 209-239: for every required place of every midnight of every day,
\* the edge to the sink and the edges from every person's day.
MidnightCalls(inp) ==
    Flat([j \in 1..Len(inp.days) |->
      Flat([n \in 1..Len(inp.dayToMidnights[inp.days[j]]) |->
        LET day == inp.days[j]
            m == inp.dayToMidnights[day][n]
        IN Flat([i \in 1..inp.midnightsToNumReq[m] |->
             LET midnightWithDay == createNewMidnightVertex(day, m, i - 1)
             IN <<EdgeCall(midnightWithDay, sink, 1, 1)>>
                \o [k \in 1..Len(inp.people) |->
                      LET boi == inp.people[k]
                      IN EdgeCall(createNewDayVertex(day, boi), midnightWithDay, 1,
                             getCostBoiDayToMidnight(
                                 m \in inp.midnightPreferences[boi],
                                 inp.midnightPointValues[m],
                                 inp.progress[boi],
                                 PrefCount(inp, m),
                                 Cardinality(inp.midnightPreferences[boi])))]],
           1)], 1)], 1)

\* G.addEdge for every call of the sequence, in order
RECURSIVE AddEdges(_, _, _)
AddEdges(N, calls, i) ==
    IF N.err # "ok" \/ i > Len(calls) THEN N
    ELSE AddEdges(addEdge(N, calls[i].u, calls[i].v, calls[i].capacity, TRUE, calls[i].c),
                  calls, i + 1)

\* generateMidnightsFlowNetwork without outPath: the network, with err
\* "KeyError" when midnightsPrefCountMap[m] is read for a midnight that
\* nobody prefers (line 223) and no network is returned.
generateMidnightsFlowNetwork(inp) ==
    LET G == Network(EmptyGraphOn(MidnightVertices), EmptyGraphOn(MidnightVertices),
                     EmptyGraphOn(MidnightVertices), EmptyGraphOn(MidnightVertices),
                     EmptyCostOn(MidnightVertices))
        unpreferred ==
            \E j \in 1..Len(inp.days) :
                \E n \in 1..Len(inp.dayToMidnights[inp.days[j]]) :
                    LET m == inp.dayToMidnights[inp.days[j]][n]
                    IN /\ inp.midnightsToNumReq[m] >= 1
                       /\ Len(inp.people) >= 1
                       /\ CAN_ASSIGN_NOT_PREF_MIDNIGHTS
                       /\ PrefCount(inp, m) = 0
    IN IF unpreferred THEN [G EXCEPT !.err = "KeyError"]
       ELSE AddEdges(G, PersonCalls(inp) \o DayCalls(inp) \o MidnightCalls(inp), 1)

\* The loop of getMaxFlow run to its end: [N, pushes] with N.err the
\* exception that left it, or "unfinished" after MaxPushes pushes.
\* MaxFlowPushed is the loop after a push that left M, MaxFlowFound the
\* body of the loop once getAugmentingPath has answered r.
RECURSIVE MaxFlowLoop(_, _)
MaxFlowPushed(M, n) ==
    IF M.err # "ok" THEN [N |-> M, pushes |-> n] ELSE MaxFlowLoop(M, n)

MaxFlowFound(N, n, r) ==
    IF r.err # "ok" THEN [N |-> [N EXCEPT !.err = r.err], pushes |-> n]
    ELSE IF ~r.found THEN [N |-> N, pushes |-> n]
    ELSE IF n >= MaxPushes THEN [N |-> [N EXCEPT !.err = "unfinished"], pushes |-> n]
    ELSE MaxFlowPushed(pushAugmentingFlow(N, r.path, FALSE), n + 1)

MaxFlowLoop(N, n) == MaxFlowFound(N, n, getAugmentingPath(N))

\* The loop of getMinCostMaxFlow run to its end, in the same way.
RECURSIVE CancelLoop(_, _)
CancelPushed(M, n) ==
    IF M.err # "ok" THEN [N |-> M, pushes |-> n] ELSE CancelLoop(M, n)

CancelFound(N, n, r) ==
    IF r.err # "ok" THEN [N |-> [N EXCEPT !.err = r.err], pushes |-> n]
    ELSE IF r.cycle = << >> THEN [N |-> N, pushes |-> n]
    ELSE IF n >= MaxPushes THEN [N |-> [N EXCEPT !.err = "unfinished"], pushes |-> n]
    ELSE CancelPushed(pushAugmentingFlow(N, r.cycle, TRUE), n + 1)

CancelLoop(N, n) == CancelFound(N, n, getNegCostResidualCycle(N))

\* The sums of getMinCostMaxFlow over the flow edges, after the two loops
\* f and c ended without an exception.
MinCostMaxFlowSums(f, c, acc) ==
    [N |-> IF acc.ok THEN c.N ELSE [c.N EXCEPT !.err = "AssertionError"],
     minCost |-> acc.minCost, maxFlow |-> acc.maxFlow,
     pushes |-> f.pushes, cancels |-> c.pushes]

\* getMinCostMaxFlow after getMaxFlow ended as f and the cancelling as c.
MinCostMaxFlowCancelled(f, c) ==
    IF c.N.err # "ok"
    THEN [N |-> c.N, minCost |-> 0, maxFlow |-> 0, pushes |-> f.pushes,
          cancels |-> c.pushes]
    ELSE MinCostMaxFlowSums(f, c,
             CostAndFlow(c.N, EdgeList(c.N.flow, 1), 1,
                         [ok |-> TRUE, minCost |-> 0, maxFlow |-> 0]))

\* getMinCostMaxFlow after getMaxFlow ended as f.
MinCostMaxFlowAfter(f) ==
    IF f.N.err # "ok"
    THEN [N |-> f.N, minCost |-> 0, maxFlow |-> 0, pushes |-> f.pushes, cancels |-> 0]
    ELSE MinCostMaxFlowCancelled(f, CancelLoop(f.N, 0))

\* getMinCostMaxFlow as one call: [N, minCost, maxFlow, pushes, cancels]
getMinCostMaxFlow(N) == MinCostMaxFlowAfter(MaxFlowLoop(N, 0))

\* The inner loop of getMidnightAssignments over the midnights m of day:
\* acc = [err, list]; m joins the list when flow(day, m) > 0, and getWeight
\* raises ValueError when the flow graph has no edge (day, m).
RECURSIVE AssignedOfDay(_, _, _, _, _)
AssignedOfDay(N, day, ms, i, acc) ==
    IF acc.err # "ok" \/ i > Len(ms) THEN acc
    ELSE LET w == getWeight(N.flow, day, ms[i])
         IN IF w.err # "ok" THEN [acc EXCEPT !.err = w.err]
            ELSE AssignedOfDay(N, day, ms, i + 1,
                     IF w.val > 0 THEN [acc EXCEPT !.list = Append(@, ms[i])] ELSE acc)

\* The loop over daysAssigned, the children dayBoi of u in the flow graph
\* with flow(u, dayBoi) > 0; getChildren asserts that day is a vertex of
\* the capacity graph.
RECURSIVE AssignedOfBoi(_, _, _, _, _)
AssignedOfBoi(N, u, ds, i, acc) ==
    IF acc.err # "ok" \/ i > Len(ds) THEN acc
    ELSE LET w == getWeight(N.flow, u, ds[i])
         IN IF w.err # "ok" THEN [acc EXCEPT !.err = w.err]
            ELSE IF w.val <= 0 THEN AssignedOfBoi(N, u, ds, i + 1, acc)
            ELSE IF ds[i] \notin N.cap.vertices THEN [acc EXCEPT !.err = "AssertionError"]
            ELSE AssignedOfBoi(N, u, ds, i + 1,
                     AssignedOfDay(N, ds[i], getChildren(N.cap, ds[i]).children, 1, acc))

\* getMidnightAssignments(G, people): [err, result] where result maps each
\* person to the list of their midnights.
RECURSIVE AssignmentsLoop(_, _, _, _)
AssignmentsLoop(N, people, k, acc) ==
    IF acc.err # "ok" \/ k > Len(people) THEN acc
    ELSE LET u == people[k]
         IN IF u \notin N.flow.vertices THEN [acc EXCEPT !.err = "AssertionError"]
            ELSE LET r == AssignedOfBoi(N, u, getChildren(N.flow, u).children, 1,
                                        [err |-> "ok", list |-> << >>])
                 IN AssignmentsLoop(N, people, k + 1,
                        [err |-> r.err, result |-> [acc.result EXCEPT ![u] = r.list]])

getMidnightAssignments(N, people) ==
    AssignmentsLoop(N, people, 1,
                    [err |-> "ok", result |-> [b \in Range(people) |-> << >>]])

\* ------------------------------- getPeopleMidnightsToDayAssignments
\* The keys of the dict that line 108 starts from, in dict order.
WeekDays == <<"Monday", "Tuesday", "Wednesday", "Thursday", "Friday", "Saturday",
              "Sunday">>

\* The characters c with c.isspace(), which str.strip() removes: space, tab,
\* line feed, carriage return, form feed, then the vertical tab, the four
\* separators U+001C..U+001F, U+0085, U+00A0 and U+1680.  The spaces from
\* U+2000 on cannot stand in a string of this module.
Whitespace ==
    {" ", "\t", "\n", "\r", "\f", "", "", "", "", "", "", " ", " "}

\* m.strip(): m without the whitespace at its two ends
RECURSIVE StripLeft(_)
StripLeft(m) ==
    IF Len(m) > 0 /\ SubSeq(m, 1, 1) \in Whitespace THEN StripLeft(SubSeq(m, 2, Len(m)))
    ELSE m

RECURSIVE StripRight(_)
StripRight(m) ==
    IF Len(m) > 0 /\ SubSeq(m, Len(m), Len(m)) \in Whitespace
    THEN StripRight(SubSeq(m, 1, Len(m) - 1))
    ELSE m

Strip(m) == StripRight(StripLeft(m))

\* m.split("|"): the pieces of m between the bars, from position i on with
\* the piece at hand starting at from.
RECURSIVE SplitBars(_, _, _)
SplitBars(m, i, from) ==
    IF i > Len(m) THEN <<SubSeq(m, from, Len(m))>>
    ELSE IF SubSeq(m, i, i) = "|"
    THEN <<SubSeq(m, from, i - 1)>> \o SplitBars(m, i + 1, i + 1)
    ELSE SplitBars(m, i + 1, from)

\* Lines 112-115: midnight joins the list of boi under the day; entries is
\* the dict of the day as the sequence of its items [boi, midnights].
AddToDay(entries, boi, midnight) ==
    IF \E i \in DOMAIN entries : entries[i].boi = boi
    THEN [i \in DOMAIN entries |->
             IF entries[i].boi = boi
             THEN [entries[i] EXCEPT !.midnights = Append(@, midnight)]
             ELSE entries[i]]
    ELSE Append(entries, [boi |-> boi, midnights |-> <<midnight>>])

\* Lines 111-115 for one midnight m of boi, parts being m.strip().split("|"):
\* unpacking anything but three pieces is a ValueError, a day that is no
\* key of result a KeyError.
DayAssignOne(acc, boi, parts) ==
    IF Len(parts) # 3 THEN [acc EXCEPT !.err = "ValueError"]
    ELSE IF parts[1] \notin Range(WeekDays) THEN [acc EXCEPT !.err = "KeyError"]
    ELSE [acc EXCEPT !.result[parts[1]] = AddToDay(@, boi, parts[2])]

\* for m in peopleTasksMap[boi]
RECURSIVE DayAssignOfBoi(_, _, _, _)
DayAssignOfBoi(acc, boi, ms, i) ==
    IF acc.err # "ok" \/ i > Len(ms) THEN acc
    ELSE DayAssignOfBoi(DayAssignOne(acc, boi, SplitBars(Strip(ms[i]), 1, 1)),
                        boi, ms, i + 1)

\* for boi in peopleTasksMap, whose keys are the people in their order
RECURSIVE DayAssignLoop(_, _, _, _)
DayAssignLoop(acc, peopleTasksMap, people, k) ==
    IF acc.err # "ok" \/ k > Len(people) THEN acc
    ELSE DayAssignLoop(DayAssignOfBoi(acc, people[k], peopleTasksMap[people[k]], 1),
                       peopleTasksMap, people, k + 1)

\* getPeopleMidnightsToDayAssignments(peopleTasksMap): [err, result] where
\* result maps each day of the week to the items [boi, midnights] of its
\* dict, in the order the people joined it.
getPeopleMidnightsToDayAssignments(peopleTasksMap, people) ==
    DayAssignLoop([err |-> "ok", result |-> [d \in Range(WeekDays) |-> << >>]],
                  peopleTasksMap, people, 1)

\* ------------------------------------------------ getPeoplePointsGain
\* Lines 130-131: the points of the midnights ms, added to n; a midnight
\* without points is a KeyError.  [err, n]
RECURSIVE PointsOf(_, _, _, _)
PointsOf(ms, pointsMap, i, acc) ==
    IF acc.err # "ok" \/ i > Len(ms) THEN acc
    ELSE IF ms[i] \notin DOMAIN pointsMap THEN [acc EXCEPT !.err = "KeyError"]
    ELSE PointsOf(ms, pointsMap, i + 1, [acc EXCEPT !.n = @ + pointsMap[ms[i]]])

\* Lines 128-131 for one person of a day: acc = [err, result], result the
\* dict as the sequence of its items [person, points]; pts = [err, n] are
\* the points of the person's midnights of the day.
AddPoints(acc, person, pts) ==
    IF pts.err # "ok" THEN [acc EXCEPT !.err = pts.err]
    ELSE IF \E i \in DOMAIN acc.result : acc.result[i].person = person
    THEN [acc EXCEPT !.result = [i \in DOMAIN @ |->
                                    IF @[i].person = person
                                    THEN [@[i] EXCEPT !.points = @ + pts.n]
                                    ELSE @[i]]]
    ELSE [acc EXCEPT !.result = Append(@, [person |-> person, points |-> pts.n])]

\* for person in dayToAssignments[day]
RECURSIVE PointsOfDay(_, _, _, _)
PointsOfDay(acc, entries, pointsMap, i) ==
    IF acc.err # "ok" \/ i > Len(entries) THEN acc
    ELSE PointsOfDay(AddPoints(acc, entries[i].boi,
                               PointsOf(entries[i].midnights, pointsMap, 1,
                                        [err |-> "ok", n |-> 0])),
                     entries, pointsMap, i + 1)

\* for day in dayToAssignments
RECURSIVE PointsLoop(_, _, _, _)
PointsLoop(acc, dayToAssignments, pointsMap, k) ==
    IF acc.err # "ok" \/ k > Len(WeekDays) THEN acc
    ELSE PointsLoop(PointsOfDay(acc, dayToAssignments[WeekDays[k]], pointsMap, 1),
                    dayToAssignments, pointsMap, k + 1)

\* getPeoplePointsGain(dayToAssignments, pointsMap): [err, result]
getPeoplePointsGain(dayToAssignments, pointsMap) ==
    PointsLoop([err |-> "ok", result |-> << >>], dayToAssignments, pointsMap, 1)

\* ------------------------------------------- one week of midnights
\* The __main__ of midnights.py: the network is generated from the inputs,
\* then generateMinCostMaxFlowAssignments runs getMinCostMaxFlow on it,
\* reads the assignments and writes them by day, with the points each
\* person gained.  ret holds the inputs and, after the second
\* step, what was computed; steps and cancels count the pushes of the two
\* loops.
MidnightInputs ==
    {[days |-> MidnightDays,
      dayToMidnights |-> [d \in Range(MidnightDays) |-> <<"x">>],
      midnightPointValues |-> [m \in MidnightKinds |-> 1],
      midnightsToNumReq |-> [m \in MidnightKinds |-> n],
      people |-> MidnightPeople,
      dayPreferences |-> dp,
      midnightPreferences |-> mp,
      progress |-> pr] :
        n \in 1..MaxNumReq,
        dp \in [Range(MidnightPeople) -> SUBSET Range(MidnightDays)],
        mp \in [Range(MidnightPeople) -> SUBSET MidnightKinds],
        pr \in [Range(MidnightPeople) -> Progresses]}

InitMidnights ==
    /\ capacityGraph = EmptyGraphOn(MidnightVertices)
    /\ flowGraph = EmptyGraphOn(MidnightVertices)
    /\ residualGraph = EmptyGraphOn(MidnightVertices)
    /\ costGraph = EmptyGraphOn(MidnightVertices)
    /\ cost = EmptyCostOn(MidnightVertices)
    /\ pc = "build"
    /\ query = "none"
    /\ inner = 0
    /\ ret = [minCost |-> 0, maxFlow |-> 0]
    /\ steps = 0
    /\ cancels = 0

GenerateNetwork ==
    /\ pc = "build"
    /\ \E inp \in MidnightInputs :
           LET G == generateMidnightsFlowNetwork(inp)
           IN /\ ret' = [inp |-> inp]
              /\ IF G.err = "ok"
                 THEN Becomes(G) /\ pc' = "generated"
                 ELSE pc' = "raised" /\ UNCHANGED graphs
    /\ query' = "generateMidnightsFlowNetwork"
    /\ UNCHANGED <<inner, steps, cancels>>

\* The exception that ends a run of calls: the first err that is not "ok".
RECURSIVE FirstErr(_, _)
FirstErr(errs, i) ==
    IF i > Len(errs) THEN "ok"
    ELSE IF errs[i] # "ok" THEN errs[i]
    ELSE FirstErr(errs, i + 1)

\* generateMinCostMaxFlowAssignments(G, people, midnightPointValues, outPath):
\* r, a, dm and pg are what the four calls of lines 259-263 compute; ret
\* holds the result that json.dump writes to outPath.
GenerateAssignments ==
    /\ pc = "generated"
    /\ \E r \in {getMinCostMaxFlow(Net)} :
       \E a \in {getMidnightAssignments(r.N, ret.inp.people)} :
       \E dm \in {getPeopleMidnightsToDayAssignments(a.result, ret.inp.people)} :
       \E pg \in {getPeoplePointsGain(dm.result, ret.inp.midnightPointValues)} :
       \E e \in {FirstErr(<<r.N.err, a.err, dm.err, pg.err>>, 1)} :
          /\ Becomes(r.N)
          /\ steps' = r.pushes
          /\ cancels' = r.cancels
          /\ pc' = IF e = "ok" THEN "returned" ELSE "raised"
          /\ ret' = IF e # "ok" THEN [inp |-> ret.inp, err |-> e]
                    ELSE [inp |-> ret.inp, err |-> e, minCost |-> r.minCost,
                          maxFlow |-> r.maxFlow, peopleMidnightMap |-> a.result,
                          dayAssignments |-> dm.result, pointsGained |-> pg.result]
    /\ query' = "generateMinCostMaxFlowAssignments"
    /\ UNCHANGED inner

NextMidnights ==
    \/ GenerateNetwork
    \/ GenerateAssignments

SpecMidnights == InitMidnights /\ [][NextMidnights]_vars

\* ---------------------------------------------------------- Vertex
\* A Vertex is the record of its val, here a small integer.
VertexVals == -2..2
Vertex(x) == [val |-> x]

\* hash(x) of an int of this size: the int itself, but -2 for -1.
Hash(x) == IF x = -1 THEN -2 ELSE x

\* Vertex.__hash__, __eq__ (other is a Vertex), __lt__, __le__, __gt__, __ge__:
\* the four comparisons return one of the two vertices.
Vertex_hash(self) == Hash(self.val)
Vertex_eq(self, other) == other.val = self.val
Vertex_lt(self, other) == IF self.val < other.val THEN self ELSE other
Vertex_le(self, other) == IF self.val <= other.val THEN self ELSE other
Vertex_gt(self, other) == IF self.val > other.val THEN self ELSE other
Vertex_ge(self, other) == IF self.val >= other.val THEN self ELSE other

\* bool(x) of a Vertex x: the class has neither __bool__ nor __len__, so
\* every instance counts as true.
Truth(x) == x \in [val : VertexVals]

\* Two vertices a and b are made, then one of a < b, a <= b, a > b,
\* a >= b, a == b and hash(a), hash(b) is evaluated; ret holds a, b and,
\* after the step, the operator with what it returned.
InitVertex ==
    /\ capacityGraph = EmptyGraph
    /\ flowGraph = EmptyGraph
    /\ residualGraph = EmptyGraph
    /\ costGraph = EmptyGraph
    /\ cost = EmptyCost
    /\ pc = "build"
    /\ query = "none"
    /\ inner = 0
    /\ ret \in [a : {Vertex(x) : x \in VertexVals}, b : {Vertex(x) : x \in VertexVals}]
    /\ steps = 0
    /\ cancels = 0

Compare ==
    /\ pc = "build"
    /\ \E op \in {"<", "<=", ">", ">="} :
           LET r == CASE op = "<" -> Vertex_lt(ret.a, ret.b)
                      [] op = "<=" -> Vertex_le(ret.a, ret.b)
                      [] op = ">" -> Vertex_gt(ret.a, ret.b)
                      [] op = ">=" -> Vertex_ge(ret.a, ret.b)
           IN /\ ret' = [a |-> ret.a, b |-> ret.b, returned |-> r, truth |-> Truth(r)]
              /\ query' = op
    /\ pc' = "returned"
    /\ UNCHANGED <<graphs, inner, steps, cancels>>

EqualAndHash ==
    /\ pc = "build"
    /\ ret' = [a |-> ret.a, b |-> ret.b, equal |-> Vertex_eq(ret.a, ret.b),
               hashes |-> <<Vertex_hash(ret.a), Vertex_hash(ret.b)>>]
    /\ query' = "=="
    /\ pc' = "returned"
    /\ UNCHANGED <<graphs, inner, steps, cancels>>

NextVertex ==
    \/ Compare
    \/ EqualAndHash

SpecVertex == InitVertex /\ [][NextVertex]_vars

\* ------------------------------------------------- reference notions
\* sum of g[e] over the pairs e of E
RECURSIVE SumPairs(_, _)
SumPairs(E, g) ==
    IF E = {} THEN 0
    ELSE LET e == CHOOSE x \in E : TRUE IN g[e] + SumPairs(E \ {e}, g)

CapEdges == EdgeSet(capacityGraph)
CapOf == [e \in CapEdges |-> Weight(capacityGraph, e[1], e[2])]

\* The source has an edge and the sink has one, as checkRep asks.
SourceAndSinkPresent ==
    source \in capacityGraph.vertices /\ sink \in capacityGraph.vertices

\* The least capacity of a cut that separates source from sink.
CutCapacity(S) == SumPairs({e \in CapEdges : e[1] \in S /\ e[2] \notin S}, CapOf)
MinCut ==
    LET cuts == {CutCapacity(S \cup {source}) : S \in SUBSET (Vertices \ {source, sink})}
    IN CHOOSE c \in cuts : \A x \in cuts : c <= x

\* The feasible integral flows on the capacity edges, and among those of
\* value MinCut the least sum of flow * cost.
MaxCapacity == IF CapEdges = {} THEN 0
               ELSE CHOOSE c \in {CapOf[e] : e \in CapEdges} : \A e \in CapEdges : CapOf[e] <= c
Conserves(f, v) ==
    SumPairs({e \in CapEdges : e[2] = v}, f) = SumPairs({e \in CapEdges : e[1] = v}, f)
FeasibleFlows ==
    {f \in [CapEdges -> 0..MaxCapacity] :
        /\ \A e \in CapEdges : f[e] <= CapOf[e]
        /\ \A v \in Vertices \ {source, sink} : Conserves(f, v)}
FlowValue(f) == SumPairs({e \in CapEdges : e[1] = source}, f)
FlowCost(f) == SumPairs(CapEdges, [e \in CapEdges |-> f[e] * cost.val[e[1]][e[2]]])
MinCostOfMaxFlows ==
    LET costs == {FlowCost(f) : f \in {g \in FeasibleFlows : FlowValue(g) = MinCut}}
    IN CHOOSE c \in costs : \A x \in costs : c <= x

\* Flow into and out of a vertex, over the edges of flowGraph.
FlowEdges == EdgeSet(flowGraph)
FlowOf == [e \in FlowEdges |-> Weight(flowGraph, e[1], e[2])]
FlowInto(v) == SumPairs({e \in FlowEdges : e[2] = v}, FlowOf)
FlowOutOf(v) == SumPairs({e \in FlowEdges : e[1] = v}, FlowOf)

\* The closed walks x1, x2, .., xn, x1 over distinct vertices, and whether
\* costGraph has one with all its edges present and a negative sum.
SimpleCycles ==
    UNION {{c \in [1..n -> Vertices] : \A i, j \in 1..n : i # j => c[i] # c[j]}
           : n \in 2..Cardinality(Vertices)}
CycleEdges(c) == {<<c[i], c[(i % Len(c)) + 1]>> : i \in 1..Len(c)}
NegativeCycle(G) ==
    \E c \in SimpleCycles :
        /\ CycleEdges(c) \subseteq EdgeSet(G)
        /\ SumPairs(CycleEdges(c), [e \in CycleEdges(c) |-> Weight(G, e[1], e[2])]) < 0

\* -------------------------------------------------------------- claims
\* C1: on a network with non-negative capacities, source and sink present
\* and no edge into the source, getMaxFlow ends by returning the capacity
\* of a minimum cut.
C1_MaxFlowIsMinCut ==
    (query = "getMaxFlow" /\ pc \in {"returned", "raised"} /\ SourceAndSinkPresent)
        => (pc = "returned" /\ ret.maxFlow = MinCut)

\* C2: on a network with source and sink where every edge has a cost, the cost getMinCostMaxFlow
\* returns is the least cost of a feasible flow of maximum value.
C2_MinCostIsMinimal ==
    (query = "getMinCostMaxFlow" /\ pc = "returned" /\ SourceAndSinkPresent)
        => ret.minCost = MinCostOfMaxFlows

\* C3: in every state, also between two pushAugmentingFlow calls and on a
\* network with both (u, v) and (v, u), the flow of every capacity edge lies
\* between 0 and its capacity.
C3_FlowWithinCapacity ==
    \A e \in CapEdges :
        /\ 0 <= Weight(flowGraph, e[1], e[2])
        /\ Weight(flowGraph, e[1], e[2]) <= CapOf[e]

\* C4: after every pushAugmentingFlow call that getMaxFlow or
\* getMinCostMaxFlow made and that returned, the flow into every vertex
\* other than source and sink equals the flow out of it.
C4_FlowConserved ==
    pc # "raised" =>
        \A v \in Vertices \ {source, sink} : FlowInto(v) = FlowOutOf(v)

\* C4 witness: getMinCostMaxFlow returned after a cancellation with flow
\* through an inner vertex.
C4_Witness ==
    /\ pc = "returned" /\ cancels >= 1
    /\ \E v \in Vertices \ {source, sink} : FlowInto(v) >= 1

\* C5: the flow value getMinCostMaxFlow returns is the value its getMaxFlow
\* call returned, before any cycle was cancelled.
C5_FlowValueKept ==
    (query = "getMinCostMaxFlow" /\ pc = "returned") => ret.maxFlow = inner

\* C5 witness: getMinCostMaxFlow returned a flow of 1 or more after it had
\* cancelled a cycle.
C5_Witness ==
    /\ query = "getMinCostMaxFlow" /\ pc = "returned"
    /\ cancels >= 1 /\ ret.maxFlow >= 1

\* C6: when getMinCostMaxFlow returns, costGraph has no cycle of negative
\* total cost, reachable from the sink or not.
C6_NoNegativeCycleLeft ==
    (query = "getMinCostMaxFlow" /\ pc = "returned" /\ SourceAndSinkPresent)
        => ~NegativeCycle(costGraph)

\* C7: every iteration of the loop of getMaxFlow comes back to the loop
\* (the call never ends by an exception, so it ends with no augmenting
\* path) and has removed an edge from the residual graph.
C7_AugmentationsComplete ==
    [][(pc = "getMaxFlow" /\ SourceAndSinkPresent /\ steps' = steps + 1)
          => (pc' = "getMaxFlow"
              /\ EdgeSet(residualGraph) \ EdgeSet(residualGraph') # {})]_vars

\* C8: the cycle-canceling loop ends.  Its next iteration is a function of
\* residualGraph and costGraph alone (Bellman-Ford reads costGraph, the
\* bottleneck reads residualGraph, cost never changes), so a loop that ends
\* has no cancellation that leaves both as they were.
C8_CancellationProgresses ==
    [][(pc = "cancel" /\ pc' = "cancel" /\ cancels' = cancels + 1
          /\ SourceAndSinkPresent)
          => <<residualGraph', costGraph'>> # <<residualGraph, costGraph>>]_vars

\* C9: in every state, a capacity edge whose flow equals its capacity (0
\* included) is no residual edge, and its reverse is one, of weight flow.
C9_SaturatedEdgeLeavesResidual ==
    \A e \in CapEdges :
        Weight(flowGraph, e[1], e[2]) = CapOf[e]
            => /\ ~HasEdge(residualGraph, e[1], e[2])
               /\ HasEdge(residualGraph, e[2], e[1])
               /\ Weight(residualGraph, e[2], e[1]) = Weight(flowGraph, e[1], e[2])

\* C10: in every state, a capacity edge (u, v) of positive capacity with
\* flow 0 whose reverse is no capacity edge has no residual edge (v, u).
C10_NoReverseWithoutFlow ==
    \A e \in CapEdges :
        (/\ Weight(flowGraph, e[1], e[2]) = 0
         /\ CapOf[e] > 0
         /\ <<e[2], e[1]>> \notin CapEdges)
            => ~HasEdge(residualGraph, e[2], e[1])

\* C11: between the operations that returned (addEdge, every
\* pushAugmentingFlow, getMaxFlow, getMinCostMaxFlow) the flow on the flow
\* edges that leave the source equals the flow on those that enter the sink.
C11_SourceFlowIsSinkFlow ==
    pc # "raised" => FlowOutOf(source) = FlowInto(sink)

\* C12: on a network whose every addEdge call gave a cost, in every state
\* between operations that returned, costGraph and residualGraph have the
\* same edges.
C12_CostGraphMirrorsResidual ==
    (pc # "raised" /\ CapEdges # {} /\ cost.has = CapEdges)
        => EdgeSet(costGraph) = EdgeSet(residualGraph)

\* C12 witness: a cancellation has run on a fully costed network and left a
\* reverse edge, no capacity edge, in both graphs.
C12_Witness ==
    /\ pc = "cancel" /\ cancels >= 1 /\ cost.has = CapEdges
    /\ \E e \in EdgeSet(costGraph) \ CapEdges : e \in EdgeSet(residualGraph)

\* C13: no step of getMaxFlow or getMinCostMaxFlow, and so no
\* pushAugmentingFlow, changes an entry of the cost mapping, whether addEdge
\* filled the mapping or the constructor was given it.
C13_CostMappingKept ==
    [][(pc \in {"getMaxFlow", "cancel"})
           => (cost'.has = cost.has /\ cost'.val = cost.val)]_vars

\* C14: a call of addEdge with a negative capacity raises
\* NegativeCapacityException and leaves the four graphs, their vertex sets
\* and the cost mapping as they were.
C14_NegativeCapacityRejected ==
    [][(query' = "addEdge" /\ query # "addEdge")
           => (pc' = "raised" /\ graphs' = graphs)]_vars

C14_Witness ==
    /\ pc = "raised" /\ query = "addEdge"
    /\ ret.maxFlow >= 1
    /\ \E e \in EdgeSet(residualGraph) : e \notin CapEdges

\* What a graph, and the cost mapping, hold for the directed edge f.
EntryOf(G, f) ==
    IF HasEdge(G, f[1], f[2]) THEN <<TRUE, Weight(G, f[1], f[2])>> ELSE <<FALSE, 0>>
CostEntryOf(k, f) ==
    IF HasCost(k, f[1], f[2]) THEN <<TRUE, k.val[f[1]][f[2]]>> ELSE <<FALSE, 0>>

\* C15: an addEdge(u, v, capacity, cost) that succeeds, also on a network
\* whose edges carry flow, sets capacity(u,v) = capacity, flow(u,v) = 0,
\* residual(u,v) = capacity and, when a cost is given, the cost of (u,v) in
\* costGraph and in the cost mapping, and leaves the entries of every other
\* directed edge in the four graphs and in the mapping as they were.
C15_AddEdgeSetsOneEdge ==
    [][(pc = "returned" /\ pc' = "extended")
           => \E e \in Pairs, capacity \in Caps :
                  /\ EntryOf(capacityGraph', e) = <<TRUE, capacity>>
                  /\ EntryOf(flowGraph', e) = <<TRUE, 0>>
                  /\ EntryOf(residualGraph', e) = <<TRUE, capacity>>
                  /\ costGraph.keys # << >>
                         => \E c \in Costs : /\ EntryOf(costGraph', e) = <<TRUE, c>>
                                              /\ CostEntryOf(cost', e) = <<TRUE, c>>
                  /\ \A f \in (Vertices \X Vertices) \ {e} :
                         /\ EntryOf(capacityGraph', f) = EntryOf(capacityGraph, f)
                         /\ EntryOf(flowGraph', f) = EntryOf(flowGraph, f)
                         /\ EntryOf(residualGraph', f) = EntryOf(residualGraph, f)
                         /\ EntryOf(costGraph', f) = EntryOf(costGraph, f)
                         /\ CostEntryOf(cost', f) = CostEntryOf(cost, f)]_vars

C15_Witness ==
    /\ pc = "extended"
    /\ \E e \in FlowEdges : FlowOf[e] >= 1
    /\ \E e \in CapEdges : EntryOf(flowGraph, e) = <<TRUE, 0>>
                              /\ EntryOf(residualGraph, e) = <<TRUE, CapOf[e]>>

\* C16: a second getMaxFlow on a network on which getMaxFlow has returned
\* returns the same total and changes nothing in the flow, residual, cost
\* and capacity graphs.
C16_SecondGetMaxFlowIsIdle ==
    [][(pc = "getMaxFlow" /\ query = "getMaxFlowAgain")
           => (graphs' = graphs /\ pc' = "returned" /\ ret' = ret)]_vars

C16_Witness ==
    /\ pc = "returned" /\ query = "getMaxFlowAgain"
    /\ ret.maxFlow >= 2
    /\ EdgeSet(residualGraph) # {}

\* C17: when the source has no outgoing edge, or only outgoing edges of
\* capacity 0, getMaxFlow returns 0 and leaves the flow graph and the
\* residual graph as the addEdge calls initialized them: a flow of 0 and a
\* residual equal to the capacity on the capacity edges, and no other edge.
C17_NoSourceCapacityNoFlow ==
    (/\ query = "getMaxFlow"
     /\ pc \in {"getMaxFlow", "returned", "raised"}
     /\ \A e \in CapEdges : e[1] = source => CapOf[e] = 0)
        => /\ pc # "raised"
           /\ pc = "returned" => ret.maxFlow = 0
           /\ \A f \in Vertices \X Vertices :
                  /\ EntryOf(flowGraph, f) = <<f \in CapEdges, 0>>
                  /\ EntryOf(residualGraph, f) = EntryOf(capacityGraph, f)

\* C18: FlowNetwork.deserialize of what serializeToJSON wrote for a network
\* with at least one edge, with or without flow, yields a network whose
\* capacity, flow, residual and cost graphs have the edges and the weights
\* of the network written.
C18_RoundTripKeepsGraphs ==
    [][(query' = "deserialize" /\ query # "deserialize" /\ CapEdges # {})
           => /\ pc' = "returned"
              /\ \A f \in Vertices \X Vertices :
                     /\ EntryOf(capacityGraph', f) = EntryOf(capacityGraph, f)
                     /\ EntryOf(flowGraph', f) = EntryOf(flowGraph, f)
                     /\ EntryOf(residualGraph', f) = EntryOf(residualGraph, f)
                     /\ EntryOf(costGraph', f) = EntryOf(costGraph, f)]_vars

\* The vertices that can be reached from those of S along edges of G.
RECURSIVE ReachFrom(_, _)
ReachFrom(G, S) ==
    LET T == S \cup {v \in Vertices : \E u \in S : HasEdge(G, u, v)}
    IN IF T = S THEN S ELSE ReachFrom(G, T)

\* G has a cycle of negative weight on vertices that src reaches.
NegativeCycleReachable(G, src) ==
    \E c \in SimpleCycles :
        /\ c[1] \in ReachFrom(G, {src})
        /\ CycleEdges(c) \subseteq EdgeSet(G)
        /\ SumPairs(CycleEdges(c), [e \in CycleEdges(c) |-> Weight(G, e[1], e[2])]) < 0

\* The weight of the walk c in G, and the least weight of a path without
\* repeated vertex from src to v (Inf when there is none).
RECURSIVE WalkWeight(_, _, _)
WalkWeight(G, c, i) ==
    IF i >= Len(c) THEN 0 ELSE Weight(G, c[i], c[i + 1]) + WalkWeight(G, c, i + 1)

SimplePaths(G, src, v) ==
    {c \in UNION {[1..n -> Vertices] : n \in 1..Cardinality(Vertices)} :
        /\ c[1] = src /\ c[Len(c)] = v
        /\ \A i, j \in 1..Len(c) : i # j => c[i] # c[j]
        /\ \A i \in 1..(Len(c) - 1) : HasEdge(G, c[i], c[i + 1])}

ShortestPathWeight(G, src, v) ==
    LET ws == {WalkWeight(G, c, 1) : c \in SimplePaths(G, src, v)}
    IN IF ws = {} THEN Inf ELSE CHOOSE w \in ws : \A x \in ws : w <= x

\* C19: bellmanFord_SSSP(src) returns, and returns a cycle exactly when src
\* reaches a cycle of negative weight; otherwise the distance it returns
\* for every vertex is the weight of a shortest path from src (infinity
\* for a vertex src does not reach).
C19_BellmanFordShapes ==
    query = "bellmanFord_SSSP"
        => /\ pc = "returned"
           /\ (ret.cycle # << >>) <=> NegativeCycleReachable(costGraph, ret.src)
           /\ ret.cycle = << >>
                  => \A v \in costGraph.vertices :
                         ret.d[v] = ShortestPathWeight(costGraph, ret.src, v)

\* C20: when bellmanFord_SSSP finds an edge it can still relax, getCycle
\* finds a predecessor for every vertex it walks over, and the sequence
\* returned begins and ends with the same vertex, repeats no other vertex,
\* follows edges of the graph in their direction and has a negative weight.
C20_CycleIsNegativeCycle ==
    (query = "bellmanFord_SSSP" /\ (pc = "raised" \/ ret.cycle # << >>))
        => /\ ret.err = "ok"
           /\ Len(ret.cycle) >= 3
           /\ ret.cycle[1] = ret.cycle[Len(ret.cycle)]
           /\ \A i, j \in 1..(Len(ret.cycle) - 1) : i # j => ret.cycle[i] # ret.cycle[j]
           /\ \A i \in 1..(Len(ret.cycle) - 1) :
                  HasEdge(costGraph, ret.cycle[i], ret.cycle[i + 1])
           /\ WalkWeight(costGraph, ret.cycle, 1) < 0

\* The least number of edges of a path from start to target in G.
FewestEdges(G, start, target) ==
    LET ns == {Len(c) - 1 : c \in SimplePaths(G, start, target)}
    IN CHOOSE n \in ns : \A x \in ns : n <= x

\* C21: for start and target among the vertices, bfs(start, target) returns
\* None exactly when start does not reach target; otherwise it returns a
\* sequence from start to target along edges of the graph, with the least
\* number of edges of any such path, whatever the weights.
C21_BfsFewestEdges ==
    query = "bfs"
        => /\ pc = "returned"
           /\ ret.found <=> ret.target \in ReachFrom(costGraph, {ret.start})
           /\ ret.found
                  => /\ ret.path[1] = ret.start
                     /\ ret.path[Len(ret.path)] = ret.target
                     /\ \A i \in 1..(Len(ret.path) - 1) :
                            HasEdge(costGraph, ret.path[i], ret.path[i + 1])
                     /\ Len(ret.path) - 1 = FewestEdges(costGraph, ret.start, ret.target)

\* bfs returned a path although a longer one exists that weighs less
C21_Witness ==
    /\ query = "bfs"
    /\ ret.found
    /\ \E c \in SimplePaths(costGraph, ret.start, ret.target) :
           /\ Len(c) > Len(ret.path)
           /\ WalkWeight(costGraph, c, 1) < WalkWeight(costGraph, ret.path, 1)

\* C22: getWeight(u, v) returns the stored weight of an edge that is
\* present, 0 included, raises ValueError for an edge that is absent,
\* and leaves the graph as it was.
C22_GetWeightOrValueError ==
    [][(query' = "getWeight" /\ query # "getWeight")
           => /\ costGraph' = costGraph
              /\ IF <<ret'.u, ret'.v>> \in EdgeSet(costGraph)
                 THEN /\ pc' = "returned"
                      /\ ret'.r = [err |-> "ok", val |-> costGraph.wt[ret'.u][ret'.v]]
                 ELSE /\ pc' = "raised"
                      /\ ret'.r = [err |-> "ValueError"]]_vars

\* getWeight failed on a graph that has edges, one of them of weight 0
C22_Witness ==
    /\ query = "getWeight"
    /\ pc = "raised"
    /\ <<ret.v, ret.u>> \in EdgeSet(costGraph)
    /\ \E e \in EdgeSet(costGraph) : Weight(costGraph, e[1], e[2]) = 0

\* src reaches a directed cycle of G.
CycleReachable(G, src) ==
    \E c \in SimpleCycles :
        /\ c[1] \in ReachFrom(G, {src})
        /\ CycleEdges(c) \subseteq EdgeSet(G)

\* C23: dijkstra_SSSP(src) fails in verifyDAG, with no distance computed,
\* exactly when src reaches a directed cycle; several paths to one vertex
\* do not make it fail.
C23_DijkstraRejectsCycles ==
    query = "dijkstra_SSSP"
        => /\ (pc = "raised") <=> CycleReachable(costGraph, ret.src)
           /\ pc = "raised"
                  => /\ ret.err = "AssertionError"
                     /\ \A v \in Vertices : ret.d[v] = Inf

\* dijkstra_SSSP returned on a graph with two paths to one vertex
C23_Witness ==
    /\ query = "dijkstra_SSSP"
    /\ pc = "returned"
    /\ \E v \in costGraph.vertices :
           Cardinality(SimplePaths(costGraph, ret.src, v)) >= 2

\* C30: where src reaches no directed cycle, dijkstra_SSSP(src) returns for
\* every vertex the distance that bellmanFord_SSSP(src) returns, which is
\* the weight of a shortest path (infinity for a vertex src does not
\* reach), also when the queue held stale entries.
C30_DijkstraIsBellmanFord ==
    (query = "dijkstra_SSSP" /\ ~CycleReachable(costGraph, ret.src))
        => LET bf == bellmanFord_SSSP(costGraph, ret.src)
           IN /\ pc = "returned"
              /\ bf.err = "ok"
              /\ bf.cycle = << >>
              /\ \A v \in costGraph.vertices :
                     /\ ret.d[v] = bf.d[v]
                     /\ ret.d[v] = ShortestPathWeight(costGraph, ret.src, v)

\* dijkstra_SSSP returned after it skipped a stale entry, on a graph with
\* an edge of negative weight
C30_Witness ==
    /\ query = "dijkstra_SSSP"
    /\ pc = "returned"
    /\ ret.stale >= 1
    /\ \E e \in EdgeSet(costGraph) : Weight(costGraph, e[1], e[2]) < 0

\* The day of the midnight that a Vertex value of an assignment names.
DayOfMidnight(name) ==
    CHOOSE d \in Range(MidnightDays) :
        \E m \in MidnightKinds, i \in 0..MaxNumReq : name = createNewMidnightVertex(d, m, i)

\* C25: in the assignments that getMidnightAssignments reads after
\* getMinCostMaxFlow on a generated network, every person has at most
\* MIDNIGHTS_PER_WEEK_LIMIT midnights, at most MIDNIGHTS_PER_DAY_LIMIT on
\* any one day, and none on a day that is not among their dayPreferences.
C25_AssignmentsWithinLimits ==
    (query = "generateMinCostMaxFlowAssignments" /\ pc = "returned")
        => \A boi \in Range(ret.inp.people) :
               LET ms == ret.peopleMidnightMap[boi]
               IN /\ Len(ms) <= MIDNIGHTS_PER_WEEK_LIMIT
                  /\ \A d \in Range(MidnightDays) :
                         Cardinality({i \in 1..Len(ms) : DayOfMidnight(ms[i]) = d})
                             <= MIDNIGHTS_PER_DAY_LIMIT
                  /\ \A i \in 1..Len(ms) :
                         DayOfMidnight(ms[i]) \in ret.inp.dayPreferences[boi]

\* A person who prefers all three days has two midnights although a place
\* is left on their third day, and on one of their days a second place
\* went to nobody.
C25_Witness ==
    /\ query = "generateMinCostMaxFlowAssignments"
    /\ pc = "returned"
    /\ \E boi \in Range(ret.inp.people) :
           LET ms == ret.peopleMidnightMap[boi]
               taken == UNION {Range(ret.peopleMidnightMap[b]) : b \in Range(ret.inp.people)}
           IN /\ ret.inp.dayPreferences[boi] = Range(MidnightDays)
              /\ Len(ms) = 2
              /\ \E d \in Range(MidnightDays) :
                     /\ \A i \in 1..Len(ms) : DayOfMidnight(ms[i]) # d
                     /\ createNewMidnightVertex(d, "x", 0) \notin taken
              /\ \E i \in 1..Len(ms) :
                     createNewMidnightVertex(DayOfMidnight(ms[i]), "x", 1)
                         \in capacityGraph.vertices \ taken

\* C24: the truth value of a < b, a <= b, a > b and a >= b on vertices is
\* that of the same comparison of a.val and b.val, and a == b holds, with
\* equal hashes, exactly when a.val = b.val.
C24_VertexOrderIsStructural ==
    /\ query = "<" => (ret.truth <=> ret.a.val < ret.b.val)
    /\ query = "<=" => (ret.truth <=> ret.a.val <= ret.b.val)
    /\ query = ">" => (ret.truth <=> ret.a.val > ret.b.val)
    /\ query = ">=" => (ret.truth <=> ret.a.val >= ret.b.val)
    /\ query = "==" => ((ret.equal /\ ret.hashes[1] = ret.hashes[2])
                            <=> ret.a.val = ret.b.val)

\* The sum of flow(u, v) * cost(u, v) over the edges of the flow graph fg.
TotalCost(fg, c) ==
    SumPairs(EdgeSet(fg),
             [e \in EdgeSet(fg) |-> Weight(fg, e[1], e[2]) * c.val[e[1]][e[2]]])

\* C26: every iteration of the loop of getMinCostMaxFlow that pushes flow
\* along the cycle Bellman-Ford returned pushes a bottleneck greater than 0
\* and leaves the total cost of the flow lower than it was.
C26_CancellationLowersCost ==
    [][(pc = "cancel" /\ cancels' = cancels + 1 /\ pc' = "cancel")
           => LET b == getMinCapAlongResCycle(Net, getNegCostResidualCycle(Net).cycle,
                                              1, Inf)
              IN /\ b.ok
                 /\ b.val > 0
                 /\ TotalCost(flowGraph', cost') < TotalCost(flowGraph, cost)]_vars

\* While pushAugmentingFlow pushes d along augPath from pair i on, every
\* pair (u, v) it comes to is a residual edge of at least d.
RECURSIVE ResidualCovers(_, _, _, _)
ResidualCovers(N, augPath, i, d) ==
    \/ N.err # "ok"
    \/ i >= Len(augPath)
    \/ /\ HasEdge(N.res, augPath[i], augPath[i + 1])
       /\ d <= Weight(N.res, augPath[i], augPath[i + 1])
       /\ ResidualCovers(PushEdge(N, augPath[i], augPath[i + 1], d), augPath, i + 1, d)

\* C27: in every pushAugmentingFlow of getMaxFlow and of getMinCostMaxFlow
\* the bottleneck is found and, for every pair (u, v) of the path or cycle,
\* (u, v) is a residual edge with at least the bottleneck as weight when
\* the pair is processed: the assertion of line 201 holds.
C27_PushWithinResidual ==
    [][/\ (pc = "getMaxFlow" /\ steps' = steps + 1)
           => LET augPath == getAugmentingPath(Net).path
                  b == getMinCapAlongAugPath(Net, augPath, 1, Inf)
              IN b.ok /\ ResidualCovers(Net, augPath, 1, b.val)
       /\ (pc = "cancel" /\ cancels' = cancels + 1)
           => LET negCycle == getNegCostResidualCycle(Net).cycle
                  b == getMinCapAlongResCycle(Net, negCycle, 1, Inf)
              IN b.ok /\ ResidualCovers(Net, negCycle, 1, b.val)]_vars

\* C28: before and after getMaxFlow and getMinCostMaxFlow on a network
\* whose edges all have a cost, the cost-graph checks of checkRep hold:
\* every edge (u, v) of costGraph has an entry in the cost mapping, weighs
\* at most cost[u][v], and is an edge of residualGraph.
C28_CostGraphChecksHold ==
    (pc \in {"build", "returned"} /\ costGraph.keys # << >>)
        => \A e \in EdgeSet(costGraph) :
               /\ HasCost(cost, e[1], e[2])
               /\ Weight(costGraph, e[1], e[2]) <= cost.val[e[1]][e[2]]
               /\ Contains(residualGraph, e[1])
               /\ HasEdge(residualGraph, e[1], e[2])

\* C29: after the addEdge calls and after every pushAugmentingFlow of
\* getMaxFlow and getMinCostMaxFlow, for every pair of vertices u, v the
\* residual weights of (u, v) and (v, u) add up to the capacities of (u, v)
\* and (v, u), an absent edge counting as 0.
C29_ResidualPairSum ==
    pc \in {"build", "getMaxFlow", "cancel", "returned"}
        => \A u, v \in Vertices :
               GetOr0(residualGraph, u, v) + GetOr0(residualGraph, v, u)
                   = GetOr0(capacityGraph, u, v) + GetOr0(capacityGraph, v, u)

\* a push along a cycle has moved residual weight between opposite edges
C29_Witness ==
    /\ pc = "cancel"
    /\ cancels >= 1
    /\ \E u, v \in Vertices :
           /\ GetOr0(residualGraph, v, u) > GetOr0(capacityGraph, v, u)
           /\ GetOr0(residualGraph, u, v) < GetOr0(capacityGraph, u, v)

====
